---- MODULE Spec2Model ----
(***************************************************************************)
(* Verification model of endstone-qqsync-webui-plugin.                     *)
(*                                                                         *)
(*   api.py     QQSyncInterface: the adapter that resolves, caches and     *)
(*              soft-calls the external QQSync plugin.                     *)
(*   server.py  WebUIServer: the date-partitioned message log              *)
(*              (_save_message_to_file, _get_recent_messages_from_file)    *)
(*              and the HTTP handlers that use the adapter.                *)
(*              Its start() and stop().                                    *)
(*   qqsync_webui_plugin.py  qqsyncwebui: on_enable, on_message_sent and   *)
(*              on_disable.                                                *)
(*   config.py  WebUIConfigManager: set_config and save_config.            *)
(*                                                                         *)
(* Python values are modelled as follows: None is the string "None", a     *)
(* dict is a TLA+ function with a string domain ({} is <<>>), a list is a  *)
(* sequence, an exception leaving a function is the flag `raised`.         *)
(***************************************************************************)
EXTENDS Integers, Sequences, FiniteSets, TLC

VARIABLES
    now,               \* time.time(), in whole seconds
    qqsync_plugin,     \* QQSyncInterface._qqsync_plugin: "None" or the handle
    last_check_time,   \* QQSyncInterface._last_check_time
    probeLog,          \* times of the last two plugin_manager.get_plugin calls
    last,              \* the most recent adapter operation and what it returned
    http,              \* the most recent HTTP exchange of WebUIServer
    files,             \* message_storage_dir: date |-> content of <date>.txt
    saves,             \* the _save_message_to_file calls so far, in order
    pc,                \* where each concurrent appender is in its append
    pending,           \* what each concurrent appender is appending
    scan,              \* the most recent reading of the message files
    webui_server,      \* qqsyncwebui.webui_server: "None" or the server
    disable,           \* what on_disable did, once it has returned
    lifecycle,         \* the last of on_load, on_enable, on_disable to return
    dropped,           \* the events on_message_sent got and did not append
    webui_config,      \* WebUIConfigManager: its config, its file, the last request
    is_running,        \* WebUIServer.is_running
    site,              \* WebUIServer.site: <<>> for None, or <<the n-th TCPSite>>
    runner,            \* WebUIServer.runner: <<>> for None, or <<the n-th AppRunner>>
    run                \* the most recent start() or stop() of the server

adapterVars == <<qqsync_plugin, last_check_time, probeLog, last>>
logVars == <<files, saves>>
appenderVars == <<pc, pending>>
readVars == <<scan>>
runVars == <<is_running, site, runner, run>>
pluginVars == <<webui_server, disable, lifecycle, dropped, webui_config, runVars>>
serverVars == <<http, logVars, appenderVars, readVars, pluginVars>>
vars == <<now, adapterVars, serverVars>>

----------------------------------------------------------------------------
(* What the model records of an adapter operation, and the result of a     *)
(* Python function: a returned value or a propagated exception, with the   *)
(* calls made on the external component on the way.                        *)

\* The record kept of an adapter operation: what was called and when, what
\* _get_qqsync_plugin gave it (r), and how it ended (out).
OpRecord(op, args, r, out) ==
    [op |-> op, args |-> args, at |-> now, plugin |-> r.ret, probed |-> r.probed,
     raised |-> r.raised \/ out.raised, value |-> out.value, calls |-> out.calls]

\* Before the first operation.
NoOperation ==
    [op |-> "init", args |-> <<>>, at |-> 0, plugin |-> "None", probed |-> FALSE,
     raised |-> FALSE, value |-> "None", calls |-> <<>>]

Ret(v, calls) == [raised |-> FALSE, value |-> v, calls |-> calls]
Exc(calls) == [raised |-> TRUE, value |-> "exception", calls |-> calls]

\* try: <body> / except Exception: return v
Catch(r, v) == IF r.raised THEN Ret(v, r.calls) ELSE r

----------------------------------------------------------------------------
(* Bounds of the model.                                                    *)

\* The clock stops at StartTime + MaxElapsed.
MaxElapsed == 7

----------------------------------------------------------------------------
(* api.py: QQSyncInterface.__init__ and _get_qqsync_plugin                 *)

None == "None"
Handle == "P"

\* self._check_interval = 5
check_interval == 5

\* The wall clock when the adapter is built. _last_check_time starts at 0 and
\* time.time() is seconds since 1970, so now - 0 >= _check_interval from the
\* first call on; any start of at least _check_interval has that property.
StartTime == 2 * check_interval

\* What plugin_manager.get_plugin('qqsync_plugin') does when called: it
\* returns None, returns the plugin, or raises.
Registry == {"absent", "present", "raising"}

\* if current_time - self._last_check_time < self._check_interval
\*    and self._qqsync_plugin: return self._qqsync_plugin
CacheHit == now - last_check_time < check_interval /\ qqsync_plugin # None

\* What get_plugin may do in a call of _get_qqsync_plugin; it is not called
\* on a cache hit, and then what it would do is of no account.
Lookups == IF CacheHit THEN {"present"} ELSE Registry

\* The two most recent probe times, oldest first.
LogProbe(log, t) == IF Len(log) < 2 THEN Append(log, t) ELSE <<log[2], t>>

\* self.plugin_manager.get_plugin('qqsync_plugin')
GetPlugin(reg) ==
    CASE reg = "present" -> [raised |-> FALSE, value |-> Handle]
      [] reg = "absent" -> [raised |-> FALSE, value |-> None]
      [] reg = "raising" -> [raised |-> TRUE, value |-> None]

\* _get_qqsync_plugin without its try/except: an exception of get_plugin
\* leaves the function.
GetQQSyncPluginWithoutTry(reg) ==
    IF CacheHit
    THEN [ret |-> qqsync_plugin, raised |-> FALSE, plugin |-> qqsync_plugin,
          checked |-> last_check_time, probed |-> FALSE]
    ELSE IF GetPlugin(reg).raised
         THEN [ret |-> None, raised |-> TRUE, plugin |-> qqsync_plugin,
               checked |-> last_check_time, probed |-> TRUE]
         ELSE [ret |-> GetPlugin(reg).value, raised |-> FALSE,
               plugin |-> GetPlugin(reg).value, checked |-> now, probed |-> TRUE]

\* _get_qqsync_plugin: the value returned (or the exception propagated), the
\* fields after the call, and whether plugin_manager.get_plugin was called.
GetQQSyncPlugin(reg) ==
    IF CacheHit
    THEN [ret |-> qqsync_plugin, raised |-> FALSE, plugin |-> qqsync_plugin,
          checked |-> last_check_time, probed |-> FALSE]
    ELSE IF GetPlugin(reg).raised
         THEN \* the assignment never happened; except Exception: return None
              [ret |-> None, raised |-> FALSE, plugin |-> qqsync_plugin,
               checked |-> last_check_time, probed |-> TRUE]
         ELSE [ret |-> GetPlugin(reg).value, raised |-> FALSE,
               plugin |-> GetPlugin(reg).value, checked |-> now, probed |-> TRUE]

\* The effect of one _get_qqsync_plugin call on the adapter's fields.
Resolved(r) ==
    /\ qqsync_plugin' = r.plugin
    /\ last_check_time' = r.checked
    /\ probeLog' = IF r.probed THEN LogProbe(probeLog, now) ELSE probeLog

----------------------------------------------------------------------------
(* api.py: is_available                                                    *)

IsAvailableBody(plugin) == Ret(plugin # None, <<>>)

is_available ==
    \E reg \in Lookups :
        LET r == GetQQSyncPlugin(reg) IN
        /\ Resolved(r)
        /\ last' = OpRecord("is_available", <<>>, r, IsAvailableBody(r.ret))
        /\ UNCHANGED <<now, serverVars>>

----------------------------------------------------------------------------
(* The external component as an operation finds it.  `has` holds the       *)
(* attributes hasattr() finds (a name ending in "()" says the attribute is *)
(* callable), `raises` the methods that raise when called, `true` the      *)
(* attributes and return values that are truthy.                           *)

\* What an attribute is an attribute of, or a callable marker the marker of.
Needs(a) ==
    CASE a \in {"save_config", "save"} -> {"config_manager"}
      [] a \in {"unbind_player_qq", "ban_player", "unban_player", "audit_logger"}
            -> {"data_manager"}
      [] a \in {"stop", "connect_forever", "is_connected"} -> {"ws_client"}
      [] a = "is_connected()" -> {"is_connected"}
      [] a = "is_enabled()" -> {"is_enabled"}
      [] OTHER -> {}

\* What has to be there for a method to be called at all.
RaiseNeeds(m) ==
    CASE m \in {"get_config", "set_config"} -> {"config_manager"}
      [] m = "is_connected" -> {"is_connected()"}
      [] m = "is_enabled" -> {"is_enabled()"}
      [] m = "online_players" -> {"server"}
      [] m \in {"get_logs", "log_admin_action"} -> {"audit_logger"}
      [] OTHER -> {m}

\* The shapes of a component over attributes H, raising methods R and truthy
\* values T.
Shapes(H, R, T) ==
    {e \in {[has |-> h, raises |-> r, true |-> t] :
                h \in SUBSET H, r \in SUBSET R, t \in SUBSET T} :
        /\ \A a \in e.has : Needs(a) \subseteq e.has
        /\ \A m \in e.raises : RaiseNeeds(m) \subseteq e.has
        /\ e.true \subseteq e.has \ e.raises}

\* An operation meets one of the shapes when _get_qqsync_plugin gave it the
\* component; it meets nothing of the component when it did not.
Env(plugin, shapes) ==
    IF plugin = None THEN {[has |-> {}, raises |-> {}, true |-> {}]} ELSE shapes

\* One call on the external component, as recorded in `calls`.
Call(m, arg, e) == [m |-> m, arg |-> arg, ok |-> m \notin e.raises]

----------------------------------------------------------------------------
(* api.py: get_plugin_info                                                 *)

GetPluginInfoBody(plugin, e) ==
    IF plugin = None
    THEN Ret([available |-> FALSE, error |-> "plugin not found"], <<>>)
    ELSE Catch(
           IF {"is_enabled", "is_enabled()"} \subseteq e.has
           THEN \* enabled_status = is_enabled()
                IF "is_enabled" \in e.raises
                THEN Exc(<<>>)
                ELSE Ret([available |-> TRUE, name |-> "qqsync_plugin",
                          enabled |-> "is_enabled" \in e.true], <<>>)
           ELSE \* getattr(plugin, 'is_enabled', True), bool(is_enabled)
                Ret([available |-> TRUE, name |-> "qqsync_plugin",
                     enabled |-> "is_enabled" \notin e.has
                                 \/ "is_enabled" \in e.true], <<>>),
           [available |-> TRUE, error |-> "exception"])

PluginInfoShapes == Shapes({"is_enabled", "is_enabled()"}, {"is_enabled"}, {"is_enabled"})

get_plugin_info ==
    \E reg \in Lookups :
        LET r == GetQQSyncPlugin(reg) IN
        \E e \in Env(r.ret, PluginInfoShapes) :
        /\ Resolved(r)
        /\ last' = OpRecord("get_plugin_info", <<>>, r, GetPluginInfoBody(r.ret, e))
        /\ UNCHANGED <<now, serverVars>>

----------------------------------------------------------------------------
(* api.py: get_connection_status                                           *)

\* ws_connected = getattr(plugin.ws_client, 'is_connected', False), called
\* when it is callable
WsConnected(e) ==
    IF "ws_client" \notin e.has \/ "is_connected" \notin e.has
    THEN Ret(FALSE, <<>>)
    ELSE IF "is_connected()" \in e.has /\ "is_connected" \in e.raises
         THEN Exc(<<>>)
         ELSE Ret("is_connected" \in e.true, <<>>)

\* plugin.bot_online, elif plugin.is_bot_online()
BotOnline(e) ==
    IF "bot_online" \in e.has
    THEN Ret("bot_online" \in e.true, <<>>)
    ELSE IF "is_bot_online" \in e.has
         THEN IF "is_bot_online" \in e.raises
              THEN Exc(<<>>)
              ELSE Ret("is_bot_online" \in e.true, <<>>)
         ELSE Ret(FALSE, <<>>)

GetConnectionStatusBody(plugin, e) ==
    IF plugin = None
    THEN Ret([websocket_connected |-> FALSE, bot_online |-> FALSE,
              last_ping |-> None, error |-> "plugin unavailable"], <<>>)
    ELSE Catch(
           IF WsConnected(e).raised \/ BotOnline(e).raised
           THEN Exc(<<>>)
           ELSE Ret([websocket_connected |-> WsConnected(e).value,
                     bot_online |-> BotOnline(e).value,
                     last_ping |-> None, reconnect_attempts |-> 0], <<>>),
           [websocket_connected |-> FALSE, bot_online |-> FALSE,
            last_ping |-> None, error |-> "exception"])

ConnectionShapes ==
    Shapes({"ws_client", "is_connected", "is_connected()", "bot_online", "is_bot_online"},
           {"is_connected", "is_bot_online"},
           {"is_connected", "bot_online", "is_bot_online"})

get_connection_status ==
    \E reg \in Lookups :
        LET r == GetQQSyncPlugin(reg) IN
        \E e \in Env(r.ret, ConnectionShapes) :
        /\ Resolved(r)
        /\ last' = OpRecord("get_connection_status", <<>>, r,
                            GetConnectionStatusBody(r.ret, e))
        /\ UNCHANGED <<now, serverVars>>

----------------------------------------------------------------------------
(* api.py: get_config                                                      *)

\* config_keys of get_config (the main configuration items)
config_keys ==
    {"napcat_ws", "access_token", "target_group", "admins", "enable_qq_to_game",
     "enable_game_to_qq", "force_bind_qq", "sync_group_card", "check_group_member",
     "chat_count_limit", "chat_ban_time", "api_qq_enable"}

\* What plugin.config_manager.get_config(k) returns for a key: a value, or
\* None for a key the store does not hold.
StoredValue(e, k) == IF "get_config" \in e.true THEN "value" ELSE None

\* key is None for "all the main items", or one key
GetConfigBody(plugin, key, e) ==
    IF plugin = None
    THEN Ret(<<>>, <<>>)
    ELSE Catch(
           IF "config_manager" \in e.has
           THEN IF "get_config" \in e.raises
                THEN Exc(<<>>)
                ELSE IF key # None
                     THEN Ret([k \in {key} |-> StoredValue(e, k)], <<>>)
                     ELSE Ret([k \in config_keys |-> StoredValue(e, k)], <<>>)
           ELSE Ret(<<>>, <<>>),
           [error |-> "exception"])

GetConfigShapes == Shapes({"config_manager", "get_config"}, {"get_config"}, {"get_config"})

get_config ==
    \E reg \in Lookups, key \in {None, "napcat_ws"} :
        LET r == GetQQSyncPlugin(reg) IN
        \E e \in Env(r.ret, GetConfigShapes) :
        /\ Resolved(r)
        /\ last' = OpRecord("get_config", <<key>>, r, GetConfigBody(r.ret, key, e))
        /\ UNCHANGED <<now, serverVars>>

----------------------------------------------------------------------------
(* api.py: set_config and update_config                                    *)

\* The keys a batch is made of, and the value sent for each.
BatchKeys == {"a", "b"}
\* A batch (config_updates): its keys in the dict's insertion order.
Batches == {<<>>, <<"a">>, <<"b">>, <<"a", "b">>, <<"b", "a">>}
Range(seq) == {seq[i] : i \in 1..Len(seq)}

\* The persist step: save_config() if the config_manager has it, else save()
\* if it has that, else nothing.
SaveCalls(e) ==
    IF "save_config" \in e.has THEN <<Call("save_config", None, e)>>
    ELSE IF "save" \in e.has THEN <<Call("save", None, e)>>
    ELSE <<>>

SaveRaised(e) == SaveCalls(e) # <<>> /\ ~SaveCalls(e)[1].ok

SetConfigBody(plugin, key, e) ==
    IF plugin = None
    THEN Ret(FALSE, <<>>)
    ELSE Catch(
           IF "config_manager" \in e.has
           THEN IF "set_config" \in e.raises
                THEN Exc(<<Call("set_config", key, e)>>)
                ELSE IF SaveRaised(e)
                     THEN Exc(<<Call("set_config", key, e)>> \o SaveCalls(e))
                     ELSE Ret(TRUE, <<Call("set_config", key, e)>> \o SaveCalls(e))
           ELSE Ret(FALSE, <<>>),
           FALSE)

ConfigShapes ==
    Shapes({"config_manager", "save_config", "save"},
           {"set_config", "save_config", "save"}, {})

set_config ==
    \E reg \in Lookups, key \in BatchKeys :
        LET r == GetQQSyncPlugin(reg) IN
        \E e \in Env(r.ret, ConfigShapes) :
        /\ Resolved(r)
        /\ last' = OpRecord("set_config", <<key>>, r, SetConfigBody(r.ret, key, e))
        /\ UNCHANGED <<now, serverVars>>

\* The per-key loop as it would be if the first set that raises ended it.
SetCallsUntilRaise(batch, failing) ==
    LET stop == IF \E i \in 1..Len(batch) : batch[i] \in failing
                THEN CHOOSE i \in 1..Len(batch) :
                        /\ batch[i] \in failing
                        /\ \A j \in 1..(i - 1) : batch[j] \notin failing
                ELSE Len(batch)
    IN [i \in 1..stop |->
          [m |-> "set_config", arg |-> batch[i], ok |-> batch[i] \notin failing]]

\* The per-key loop of update_config: set_config(key, value) for every key of
\* the batch; `failing` holds the keys whose set raises.
SetCalls(batch, failing) ==
    [i \in 1..Len(batch) |->
        [m |-> "set_config", arg |-> batch[i], ok |-> batch[i] \notin failing]]

\* results as they would be if a failed call returned the empty dict
NoResults(batch) == <<>>

\* results False for every key of the batch (api.py 193, 223, 227)
AllFalse(batch) == [k \in Range(batch) |-> FALSE]

\* results after the loop: True for a key whose set returned
Tentative(batch, failing) == [k \in Range(batch) |-> k \notin failing]

\* results with the failure of the persist step ignored
AfterSaveKeepingTentative(batch, failing, e) == Tentative(batch, failing)

\* results after the persist step: every key False if it raised
AfterSave(batch, failing, e) ==
    IF SaveRaised(e) THEN AllFalse(batch) ELSE Tentative(batch, failing)

\* The calls as they would be with the persist step inside the loop.
UpdateCallsSavingPerKey(batch, failing, e) ==
    LET sets == SetCalls(batch, failing)
        n == IF SaveCalls(e) = <<>> THEN 1 ELSE 2
    IN [i \in 1..(n * Len(sets)) |->
          IF n = 1 THEN sets[i]
          ELSE IF i % 2 = 1 THEN sets[(i + 1) \div 2] ELSE SaveCalls(e)[1]]

\* The calls update_config makes on the config_manager, in order: the loop
\* over the batch, then the persist step.
UpdateCalls(batch, failing, e) == SetCalls(batch, failing) \o SaveCalls(e)

UpdateConfigBody(plugin, batch, failing, e) ==
    IF plugin = None
    THEN Ret(AllFalse(batch), <<>>)
    ELSE Catch(
           IF "config_manager" \in e.raises
           THEN Exc(<<>>)
           ELSE IF "config_manager" \in e.has
                THEN Ret(AfterSave(batch, failing, e),
                         UpdateCalls(batch, failing, e))
                ELSE Ret(AllFalse(batch), <<>>),
           AllFalse(batch))

\* The config_manager of update_config: which keys its set_config raises for
\* is the input `failing`; a config_manager in `raises` is an attribute whose
\* read raises something hasattr() lets through, which the outer except of
\* update_config catches.
UpdateShapes ==
    Shapes({"config_manager", "save_config", "save"},
           {"config_manager", "save_config", "save"}, {})

update_config ==
    \E reg \in Lookups, batch \in Batches :
        LET r == GetQQSyncPlugin(reg) IN
        \E e \in Env(r.ret, UpdateShapes),
           failing \in SUBSET Range(batch) :
        /\ Resolved(r)
        /\ last' = OpRecord("update_config", batch, r,
                            UpdateConfigBody(r.ret, batch, failing, e))
        /\ UNCHANGED <<now, serverVars>>

----------------------------------------------------------------------------
(* api.py: get_users, get_user_info                                        *)

\* One entry of data_manager._binding_data: a dict with its 'qq' (a str, or
\* something without strip()) and 'is_banned', or a value that is no dict.
Entry(name, qq, banned) ==
    [name |-> name, isdict |-> TRUE, qq |-> qq, qq_is_str |-> TRUE, is_banned |-> banned]
NoDictEntry(name) ==
    [name |-> name, isdict |-> FALSE, qq |-> "", qq_is_str |-> TRUE, is_banned |-> FALSE]
NoStrEntry(name) ==
    [name |-> name, isdict |-> TRUE, qq |-> "", qq_is_str |-> FALSE, is_banned |-> FALSE]

\* The values of _binding_data the operations are run on: no dict at all, no
\* data, and bindings of bound, unbound, banned and malformed entries.
NoBindings == [isdict |-> TRUE, items |-> <<>>]
BindingChoices ==
    {[isdict |-> FALSE, items |-> <<>>],
     NoBindings,
     [isdict |-> TRUE, items |-> <<Entry("Steve", "10001", FALSE)>>],
     [isdict |-> TRUE, items |-> <<Entry("Steve", "10001", FALSE), Entry("Alex", "", TRUE)>>],
     [isdict |-> TRUE, items |-> <<NoDictEntry("Bad"), Entry("Alex", "", FALSE)>>],
     [isdict |-> TRUE, items |-> <<NoStrEntry("Odd")>>]}

Players == {"Steve", "Alex"}

\* user_info of get_users: the fields derived here; its other fields copy
\* user_data.get(...) one by one.
UserInfo(entry, online) ==
    [player_name |-> entry.name, qq_number |-> entry.qq,
     is_online |-> entry.name \in online, is_banned |-> entry.is_banned,
     is_bound |-> entry.qq # ""]

IsDictEntry(entry) == entry.isdict

\* The body of get_users inside its try, for a component with a data_manager.
UsersOf(e, bindings, online) ==
    IF ~bindings.isdict
    THEN Ret(<<>>, <<>>)
    ELSE IF "online_players" \in e.raises
         THEN Exc(<<>>)
         ELSE LET dicts == SelectSeq(bindings.items, IsDictEntry)
                  seen == IF "server" \in e.has THEN online ELSE {}
              IN IF \E i \in 1..Len(dicts) : ~dicts[i].qq_is_str
                 THEN Exc(<<>>)   \* user_data.get('qq', '').strip()
                 ELSE Ret([i \in 1..Len(dicts) |-> UserInfo(dicts[i], seen)], <<>>)

GetUsersBody(plugin, e, bindings, online) ==
    IF plugin = None
    THEN Ret(<<>>, <<>>)
    ELSE Catch(
           IF "data_manager" \in e.has
           THEN UsersOf(e, bindings, online)
           ELSE Ret(<<>>, <<>>),
           <<>>)

UsersShapes == Shapes({"data_manager", "server"}, {"online_players"}, {})

get_users ==
    \E reg \in Lookups, bindings \in BindingChoices, online \in SUBSET {"Steve"} :
        LET r == GetQQSyncPlugin(reg) IN
        \E e \in Env(r.ret, UsersShapes) :
        /\ Resolved(r)
        /\ last' = OpRecord("get_users", <<>>, r,
                            GetUsersBody(r.ret, e, bindings, online))
        /\ UNCHANGED <<now, serverVars>>

\* for user in users: if user['player_name'] == player_name: return user
\* The Optional result is <<user>>, or <<>> for None.
GetUserInfoBody(plugin, player, e, bindings, online) ==
    LET users == GetUsersBody(plugin, e, bindings, online) IN
    IF users.raised
    THEN users
    ELSE IF \E i \in 1..Len(users.value) : users.value[i].player_name = player
         THEN Ret(<<users.value[CHOOSE i \in 1..Len(users.value) :
                        /\ users.value[i].player_name = player
                        /\ \A j \in 1..(i - 1) : users.value[j].player_name # player]>>,
                  <<>>)
         ELSE Ret(<<>>, <<>>)

get_user_info ==
    \E reg \in Lookups, bindings \in BindingChoices, player \in Players :
        LET r == GetQQSyncPlugin(reg) IN
        \E e \in Env(r.ret, UsersShapes) :
        /\ Resolved(r)
        /\ last' = OpRecord("get_user_info", <<player>>, r,
                            GetUserInfoBody(r.ret, player, e, bindings, {}))
        /\ UNCHANGED <<now, serverVars>>

----------------------------------------------------------------------------
(* api.py: unbind_user, ban_user, unban_user, send_message                 *)

\* The shared body of the three user operations: data_manager.<method> is
\* called if it is there, and what it returns is returned.
UserActionBody(plugin, method, player, e) ==
    IF plugin = None
    THEN Ret(FALSE, <<>>)
    ELSE Catch(
           IF "data_manager" \in e.has /\ method \in e.has
           THEN IF method \in e.raises
                THEN Exc(<<Call(method, player, e)>>)
                ELSE Ret(method \in e.true, <<Call(method, player, e)>>)
           ELSE Ret(FALSE, <<>>),
           FALSE)

UserActionShapes(method) == Shapes({"data_manager", method}, {method}, {method})

UnbindShapes == UserActionShapes("unbind_player_qq")
BanShapes == UserActionShapes("ban_player")
UnbanShapes == UserActionShapes("unban_player")

unbind_user ==
    \E reg \in Lookups, player \in Players :
        LET r == GetQQSyncPlugin(reg) IN
        \E e \in Env(r.ret, UnbindShapes) :
        /\ Resolved(r)
        /\ last' = OpRecord("unbind_user", <<player>>, r,
                            UserActionBody(r.ret, "unbind_player_qq", player, e))
        /\ UNCHANGED <<now, serverVars>>

ban_user ==
    \E reg \in Lookups, player \in Players :
        LET r == GetQQSyncPlugin(reg) IN
        \E e \in Env(r.ret, BanShapes) :
        /\ Resolved(r)
        /\ last' = OpRecord("ban_user", <<player>>, r,
                            UserActionBody(r.ret, "ban_player", player, e))
        /\ UNCHANGED <<now, serverVars>>

unban_user ==
    \E reg \in Lookups, player \in Players :
        LET r == GetQQSyncPlugin(reg) IN
        \E e \in Env(r.ret, UnbanShapes) :
        /\ Resolved(r)
        /\ last' = OpRecord("unban_user", <<player>>, r,
                            UserActionBody(r.ret, "unban_player", player, e))
        /\ UNCHANGED <<now, serverVars>>

\* success = plugin.api_send_message(f"[WebUI] {message}")
SendMessageBody(plugin, message, e) ==
    IF plugin = None
    THEN Ret(FALSE, <<>>)
    ELSE Catch(
           IF "api_send_message" \in e.has
           THEN IF "api_send_message" \in e.raises
                THEN Exc(<<Call("api_send_message", message, e)>>)
                ELSE Ret("api_send_message" \in e.true,
                         <<Call("api_send_message", message, e)>>)
           ELSE Ret(FALSE, <<>>),
           FALSE)

SendShapes == Shapes({"api_send_message"}, {"api_send_message"}, {"api_send_message"})

send_message ==
    \E reg \in Lookups :
        LET r == GetQQSyncPlugin(reg) IN
        \E e \in Env(r.ret, SendShapes) :
        /\ Resolved(r)
        /\ last' = OpRecord("send_message", <<(<<"hello">>)>>, r,
                            SendMessageBody(r.ret, <<"hello">>, e))
        /\ UNCHANGED <<now, serverVars>>

----------------------------------------------------------------------------
(* api.py: get_statistics, get_audit_logs                                  *)

\* sum(1 for item in seq if flag(item)), with the flags given per index
Count(seq, flags) == Cardinality({i \in 1..Len(seq) : flags[i]})

IsBound(entry) == entry.qq # ""
IsBanned(entry) == entry.is_banned

\* The body of get_statistics inside its try, for a component with a
\* data_manager; the play time and session sums are left out.
StatsOf(e, bindings, online) ==
    IF ~bindings.isdict
    THEN Ret(<<>>, <<>>)
    ELSE IF "online_players" \in e.raises
         THEN Exc(<<>>)
         ELSE LET items == bindings.items
                  seen == IF "server" \in e.has THEN online ELSE {}
                  IsOnline(entry) == entry.name \in seen
                  bound == [i \in 1..Len(items) |-> IsBound(items[i])]
                  onl == [i \in 1..Len(items) |-> IsOnline(items[i])]
                  banned == [i \in 1..Len(items) |-> IsBanned(items[i])]
              IN \* data.get('qq', '').strip() on every value of the dict
                 IF \E i \in 1..Len(items) : ~items[i].isdict \/ ~items[i].qq_is_str
                 THEN Exc(<<>>)
                 ELSE Ret([total_users |-> Len(items),
                           bound_users |-> Count(items, bound),
                           unbound_users |-> Len(items) - Count(items, bound),
                           online_users |-> Count(items, onl),
                           offline_users |-> Len(items) - Count(items, onl),
                           banned_users |-> Count(items, banned)], <<>>)

GetStatisticsBody(plugin, e, bindings, online) ==
    IF plugin = None
    THEN Ret(<<>>, <<>>)
    ELSE Catch(
           IF "data_manager" \in e.has
           THEN StatsOf(e, bindings, online)
           ELSE Ret(<<>>, <<>>),
           [error |-> "exception"])

get_statistics ==
    \E reg \in Lookups, bindings \in BindingChoices, online \in SUBSET {"Steve"} :
        LET r == GetQQSyncPlugin(reg) IN
        \E e \in Env(r.ret, UsersShapes) :
        /\ Resolved(r)
        /\ last' = OpRecord("get_statistics", <<>>, r,
                            GetStatisticsBody(r.ret, e, bindings, online))
        /\ UNCHANGED <<now, serverVars>>

\* return plugin.data_manager.audit_logger.get_logs(...)
GetAuditLogsBody(plugin, e, logs) ==
    IF plugin = None
    THEN Ret(<<>>, <<>>)
    ELSE Catch(
           IF "data_manager" \in e.has /\ "audit_logger" \in e.has
           THEN IF "get_logs" \in e.raises THEN Exc(<<>>) ELSE Ret(logs, <<>>)
           ELSE Ret(<<>>, <<>>),
           <<>>)

AuditShapes == Shapes({"data_manager", "audit_logger"}, {"get_logs"}, {})

get_audit_logs ==
    \E reg \in Lookups, logs \in {<<>>, <<"unbind Steve">>} :
        LET r == GetQQSyncPlugin(reg) IN
        \E e \in Env(r.ret, AuditShapes) :
        /\ Resolved(r)
        /\ last' = OpRecord("get_audit_logs", <<>>, r, GetAuditLogsBody(r.ret, e, logs))
        /\ UNCHANGED <<now, serverVars>>

----------------------------------------------------------------------------
(* api.py: restart_websocket, execute_command                              *)

\* The calls of restart_websocket on a component with a ws_client, in order:
\* stop() if it is there, then connect_forever() scheduled on plugin._loop if
\* both are there.
StopCalls(e) == IF "stop" \in e.has THEN <<Call("stop", None, e)>> ELSE <<>>

Reconnects(e) == "connect_forever" \in e.has /\ "_loop" \in e.has

RestartWebsocketBody(plugin, e) ==
    IF plugin = None
    THEN Ret(FALSE, <<>>)
    ELSE Catch(
           IF "ws_client" \in e.has
           THEN IF "stop" \in e.raises
                THEN Exc(StopCalls(e))
                ELSE IF Reconnects(e)
                     THEN IF "connect_forever" \in e.raises
                          THEN Exc(StopCalls(e) \o <<Call("connect_forever", None, e)>>)
                          ELSE Ret(TRUE, StopCalls(e) \o <<Call("connect_forever", None, e)>>)
                     ELSE Ret(FALSE, StopCalls(e))
           ELSE Ret(FALSE, <<>>),
           FALSE)

RestartShapes ==
    Shapes({"ws_client", "stop", "connect_forever", "_loop"}, {"stop", "connect_forever"}, {})

restart_websocket ==
    \E reg \in Lookups :
        LET r == GetQQSyncPlugin(reg) IN
        \E e \in Env(r.ret, RestartShapes) :
        /\ Resolved(r)
        /\ last' = OpRecord("restart_websocket", <<>>, r, RestartWebsocketBody(r.ret, e))
        /\ UNCHANGED <<now, serverVars>>

\* The audit step of execute_command: log_admin_action if the component has
\* a data_manager with an audit_logger.
AuditCalls(command, e) ==
    IF "data_manager" \in e.has /\ "audit_logger" \in e.has
    THEN <<Call("log_admin_action", command, e)>>
    ELSE <<>>

ExecuteCommandBody(plugin, command, e) ==
    IF plugin = None
    THEN Ret([success |-> FALSE, error |-> "plugin unavailable"], <<>>)
    ELSE Catch(
           IF "execute_server_command" \in e.has
           THEN IF "execute_server_command" \in e.raises
                THEN Exc(<<Call("execute_server_command", command, e)>>)
                ELSE IF "log_admin_action" \in e.raises
                     THEN Exc(<<Call("execute_server_command", command, e)>>
                              \o AuditCalls(command, e))
                     ELSE Ret([success |-> TRUE, result |-> "output"],
                              <<Call("execute_server_command", command, e)>>
                              \o AuditCalls(command, e))
           ELSE Ret([success |-> FALSE, error |-> "not supported"], <<>>),
           [success |-> FALSE, error |-> "exception"])

ExecuteShapes ==
    Shapes({"execute_server_command", "data_manager", "audit_logger"},
           {"execute_server_command", "log_admin_action"}, {})

execute_command ==
    \E reg \in Lookups :
        LET r == GetQQSyncPlugin(reg) IN
        \E e \in Env(r.ret, ExecuteShapes) :
        /\ Resolved(r)
        /\ last' = OpRecord("execute_command", <<"list">>, r,
                            ExecuteCommandBody(r.ret, "list", e))
        /\ UNCHANGED <<now, serverVars>>

----------------------------------------------------------------------------
(* api.py: get_server_info                                                 *)

\* get_server_info calls get_users, get_connection_status and
\* get_plugin_info, each of which calls _get_qqsync_plugin again: within the
\* one call the handle just returned is still cached, so they get it too.
ServerInfoOf(plugin, e, bindings, online) ==
    IF "online_players" \in e.raises
    THEN Exc(<<>>)
    ELSE LET own == [bound_users_count |-> Len(GetUsersBody(plugin, e, bindings, online).value),
                     connection_status |-> GetConnectionStatusBody(plugin, e).value,
                     plugin_info |-> GetPluginInfoBody(plugin, e).value]
         IN IF "server" \in e.has
            THEN Ret([online_players_count |-> Cardinality(online),
                      online_players |-> online,
                      bound_users_count |-> own.bound_users_count,
                      connection_status |-> own.connection_status,
                      plugin_info |-> own.plugin_info], <<>>)
            ELSE Ret(own, <<>>)

GetServerInfoBody(plugin, e, bindings, online) ==
    IF plugin = None
    THEN Ret(<<>>, <<>>)
    ELSE Catch(ServerInfoOf(plugin, e, bindings, online), [error |-> "exception"])

ServerInfoShapes ==
    Shapes({"server", "data_manager", "ws_client", "is_connected", "is_connected()",
            "is_enabled", "is_enabled()"},
           {"online_players", "is_connected", "is_enabled"}, {})

get_server_info ==
    \E reg \in Lookups, bindings \in {NoBindings, [isdict |-> TRUE, items |-> <<Entry("Steve", "10001", FALSE)>>]} :
        LET r == GetQQSyncPlugin(reg) IN
        \E e \in Env(r.ret, ServerInfoShapes) :
        /\ Resolved(r)
        /\ last' = OpRecord("get_server_info", <<>>, r,
                            GetServerInfoBody(r.ret, e, bindings, {"Steve"}))
        /\ UNCHANGED <<now, serverVars>>

----------------------------------------------------------------------------
(* server.py: api_set_config                                               *)

\* What the model records of an HTTP exchange: the handler, the response and
\* the adapter operation whose result the response was built from.
Response(handler, status, body, adapter) ==
    [handler |-> handler, status |-> status, body |-> body, adapter |-> adapter]

NoResponse == Response("none", 0, <<>>, NoOperation)

\* qqsync_config_keys of api_set_config: the same twelve names as config_keys
qqsync_config_keys == config_keys

\* key.startswith('webui.'), for the keys a request is made of
WebUIKeys == {"webui.port"}

\* The classification loop: a key goes to qqsync_config if it is one of
\* qqsync_config_keys, to webui_config if it starts with 'webui.', and to
\* qqsync_config otherwise.
IsQQSyncKey(key) == key \in qqsync_config_keys \/ key \notin WebUIKeys
IsWebUIKey(key) == ~IsQQSyncKey(key)

\* The request bodies: one request.json() cannot parse, one that is no dict,
\* and dicts with their keys in insertion order.
Requests ==
    {[kind |-> "invalid json", keys |-> <<>>], [kind |-> "not a dict", keys |-> <<>>]}
    \cup {[kind |-> "dict", keys |-> ks] :
            ks \in {<<>>, <<"a">>, <<"a", "b">>, <<"napcat_ws">>,
                    <<"webui.port">>, <<"a", "webui.port">>}}

\* for key, success in results.items(): success_count += 1, or an error
Successes(results) == Cardinality({k \in DOMAIN results : results[k]})
Failures(results) == Cardinality({k \in DOMAIN results : ~results[k]})

\* The response at the end of api_set_config.
SetConfigResponse(errors, success_count, adapter) ==
    IF errors > 0
    THEN IF success_count > 0
         THEN Response("api_set_config", 207,
                       [success |-> FALSE, partial_success |-> TRUE], adapter)
         ELSE Response("api_set_config", 500, [error |-> "save failed"], adapter)
    ELSE Response("api_set_config", 200, [success |-> TRUE], adapter)

\* config.py: WebUIConfigManager as api_set_config uses it.  `config` holds
\* the keys set in memory and `file` those the file holds; `request` is what
\* became of the webui keys of the most recent request.
NoWebUIConfig ==
    [config |-> {}, file |-> {},
     request |-> [keys |-> {}, applied |-> {}, persisted |-> {}]]

\* What may go wrong in the WebUIConfigManager: the assignment of set_config
\* raises (a parent of the key is no dict), or the mkdir, open or json.dump
\* of save_config raises.
WebUIFaults == {"none", "set raises", "save raises"}

\* for key, value in webui_config.items(): set_config(key, value), then
\* save_config().  Both catch what they raise, log it and return None: a key
\* whose assignment raised is not in config, and a save that raised leaves
\* the file as it was.
SetWebUIConfig(store, keys, fault) ==
    LET applied == IF fault = "set raises" THEN {} ELSE Range(keys)
        config == store.config \cup applied
        saved == keys # <<>> /\ fault # "save raises"
    IN [config |-> config,
        file |-> IF saved THEN config ELSE store.file,
        request |-> [keys |-> Range(keys), applied |-> applied,
                     persisted |-> IF saved THEN applied ELSE {}]]

\* A second adapter call of the same handler finds the handle the first one
\* has just cached: its _get_qqsync_plugin does not probe.
CachedAgain(r) == [r EXCEPT !.probed = FALSE]

\* self.plugin.config_manager is the WebUIConfigManager the plugin creates in
\* on_load, whose set_config and save_config catch their own exceptions: the
\* webui keys (webui_updates, the handler's webui_config) all count as
\* successes.  self.plugin has no data_manager, so the audit step is skipped.
api_set_config ==
    \E request \in Requests :
        IF request.kind # "dict"
        THEN /\ http' = Response("api_set_config", 400, [error |-> request.kind], NoOperation)
             /\ UNCHANGED <<now, adapterVars, logVars, appenderVars, readVars, pluginVars>>
        ELSE LET qqsync_config == SelectSeq(request.keys, IsQQSyncKey)
                 webui_updates == SelectSeq(request.keys, IsWebUIKey)
             IN
             \E fault \in IF webui_updates = <<>> THEN {"none"} ELSE WebUIFaults :
             /\ webui_config' = SetWebUIConfig(webui_config, webui_updates, fault)
             /\ UNCHANGED <<webui_server, disable, lifecycle, dropped, runVars>>
             /\ IF qqsync_config = <<>>
                THEN /\ http' = SetConfigResponse(0, Len(webui_updates), NoOperation)
                     /\ UNCHANGED <<now, adapterVars, logVars, appenderVars, readVars>>
                ELSE \E reg \in Lookups :
                        LET r == GetQQSyncPlugin(reg) IN
                        \E e \in Env(r.ret, UpdateShapes),
                           failing \in SUBSET Range(qqsync_config) :
                            LET available == IsAvailableBody(r.ret).value
                                out == UpdateConfigBody(r.ret, qqsync_config, failing, e)
                                adapter ==
                                    IF available
                                    THEN OpRecord("update_config", qqsync_config,
                                                  CachedAgain(r), out)
                                    ELSE OpRecord("is_available", <<>>, r,
                                                  IsAvailableBody(r.ret))
                                errors == IF available THEN Failures(out.value) ELSE 1
                                success_count ==
                                    (IF available THEN Successes(out.value) ELSE 0)
                                    + Len(webui_updates)
                            IN /\ Resolved(r)
                               /\ last' = adapter
                               /\ http' = SetConfigResponse(errors, success_count, adapter)
                               /\ UNCHANGED <<now, logVars, appenderVars, readVars>>

----------------------------------------------------------------------------
(* server.py: the message log.  A str is a sequence of tokens: the         *)
(* characters the code looks for ("[", "]", ":", " ", the newline and the  *)
(* digits) are tokens of their own, and any other token stands for a run   *)
(* of other characters.  The Chinese words of the direction labels are     *)
(* written in pinyin and their arrow as "->".                              *)

Min(S) == CHOOSE x \in S : \A y \in S : x <= y
Max(S) == CHOOSE x \in S : \A y \in S : x >= y

\* Seconds in a calendar day; local time is taken to be UTC.
DayLength == 24 * 60 * 60

\* datetime.fromtimestamp(ts).strftime('%Y-%m-%d'): the day, by its number
DateOf(ts) == ts \div DayLength

Digits == <<"0", "1", "2", "3", "4", "5", "6", "7", "8", "9">>
TwoDigits(n) == <<Digits[(n \div 10) + 1], Digits[(n % 10) + 1]>>

\* datetime.fromtimestamp(ts).strftime('%H:%M:%S')
TimeStr(ts) ==
    LET s == ts % DayLength
    IN TwoDigits(s \div 3600) \o <<":">> \o TwoDigits((s % 3600) \div 60)
       \o <<":">> \o TwoDigits(s % 60)

\* direction_map.get(message['direction'], '[weizhi]')
direction_map(direction) ==
    CASE direction = <<"qq_to_game">> -> <<"[", "QQ->youxi", "]">>
      [] direction = <<"game_to_qq">> -> <<"[", "youxi->QQ", "]">>
      [] direction = <<"webui_to_game">> -> <<"[", "WebUI->youxi", "]">>
      [] direction = <<"webui_to_qq">> -> <<"[", "WebUI->QQ", "]">>
      [] direction = <<"console">> -> <<"[", "kongzhitai", "]">>
      [] direction = <<"unknown">> -> <<"[", "weizhi", "]">>
      [] OTHER -> <<"[", "weizhi", "]">>

\* log_line = f"[{time_str}] {direction_str} {sender}: {content}\n"
LogLine(message) ==
    <<"[">> \o TimeStr(message.timestamp) \o <<"]", " ">>
    \o direction_map(message.direction) \o <<" ">>
    \o message.sender \o <<":", " ">> \o message.content \o <<"\n">>

\* The file named by the date of the call.
FileDateOfCall(message, at) == DateOf(at)

\* The date that names the file of a message saved at time `at`:
\* now = datetime.fromtimestamp(message['timestamp']), which for all its name
\* is not the clock of the call.
FileDate(message, at) == DateOf(message.timestamp)

\* The call as it would be if it wrote nothing.
SaveNothingToFile(fs, message, at, io) ==
    [files |-> fs, date |-> FileDate(message, at), returned |-> None]

\* open(file_path, 'a') and f.write(log_line) on the directory fs: "ok", or
\* the open fails, or the file is opened (and so created) and the write
\* fails.  Either way the exception stays inside and the function returns
\* None, as it does after a write.
SaveMessageToFile(fs, message, at, io) ==
    LET date == FileDate(message, at)
        old == IF date \in DOMAIN fs THEN fs[date] ELSE <<>>
        new == IF io = "ok" THEN old \o LogLine(message) ELSE old
    IN [files |-> IF io = "open fails"
                  THEN fs
                  ELSE [d \in DOMAIN fs \cup {date} |-> IF d = date THEN new ELSE fs[d]],
        date |-> date,
        returned |-> None]

\* f.readlines(): the lines with their newline, and what follows the last
\* newline if anything does.
RECURSIVE ReadLines(_)
ReadLines(content) ==
    IF content = <<>>
    THEN <<>>
    ELSE LET ends == {i \in 1..Len(content) : content[i] = "\n"}
         IN IF ends = {}
            THEN <<content>>
            ELSE <<SubSeq(content, 1, Min(ends))>>
                 \o ReadLines(SubSeq(content, Min(ends) + 1, Len(content)))

\* text.split(sep, 1) for a separator of two characters: one part if the
\* separator is not there, else what precedes and what follows its first
\* occurrence.
Split1(text, sep) ==
    LET hits == {i \in 1..(Len(text) - 1) : text[i] = sep[1] /\ text[i + 1] = sep[2]}
    IN IF hits = {}
       THEN <<text>>
       ELSE <<SubSeq(text, 1, Min(hits) - 1), SubSeq(text, Min(hits) + 2, Len(text))>>

\* text.replace(c, '')
Remove(text, c) == SelectSeq(text, LAMBDA t : t # c)

\* text.strip()
Strip(text) ==
    LET keep == {i \in 1..Len(text) : text[i] \notin {" ", "\n"}}
    IN IF keep = {} THEN <<>> ELSE SubSeq(text, Min(keep), Max(keep))

IsDigit(c) == \E n \in 1..10 : Digits[n] = c
DigitValue(c) == (CHOOSE n \in 1..10 : Digits[n] = c) - 1
Number(d1, d2) == 10 * DigitValue(d1) + DigitValue(d2)

\* What strptime reads for one of %H, %M and %S: one or two digits.
IsField(text) == Len(text) \in {1, 2} /\ \A i \in 1..Len(text) : IsDigit(text[i])
FieldValue(text) ==
    IF Len(text) = 1 THEN DigitValue(text[1]) ELSE Number(text[1], text[2])

\* datetime.strptime(f"{date} {time_str}", "%Y-%m-%d %H:%M:%S"): <<seconds
\* since midnight>>, or <<>> if it raises.  The blank of the format takes
\* the blanks time_str begins with, each of %H, %M and %S takes one or two
\* digits, and a second of 60 or 61, which the format takes, is refused by
\* the datetime constructor.
ParseTime(time_str) ==
    LET blanks == {i \in 1..Len(time_str) : \A j \in 1..i : time_str[j] = " "}
        text == SubSeq(time_str, Cardinality(blanks) + 1, Len(time_str))
        colons == {i \in 1..Len(text) : text[i] = ":"}
    IN IF Cardinality(colons) # 2
       THEN <<>>
       ELSE LET H == SubSeq(text, 1, Min(colons) - 1)
                M == SubSeq(text, Min(colons) + 1, Max(colons) - 1)
                S == SubSeq(text, Max(colons) + 1, Len(text))
            IN IF /\ IsField(H) /\ IsField(M) /\ IsField(S)
                  /\ FieldValue(H) < 24 /\ FieldValue(M) < 60 /\ FieldValue(S) < 60
               THEN <<3600 * FieldValue(H) + 60 * FieldValue(M) + FieldValue(S)>>
               ELSE <<>>

\* The body of the line loop of _get_recent_messages_from_file for one line
\* of the file of `date`: <<the message appended>>, or <<>> when the line is
\* skipped because a split or strptime raised.
DecodeLine(line, date) ==
    LET first == Split1(line, <<"]", " ">>) IN
    IF Len(first) < 2 THEN <<>> ELSE
    LET time_str == Remove(first[1], "[")
        second == Split1(first[2], <<"]", " ">>)
    IN
    IF Len(second) < 2 THEN <<>> ELSE
    LET direction_str == Remove(second[1], "[")
        third == Split1(second[2], <<":", " ">>)
    IN
    IF Len(third) < 2 \/ ParseTime(time_str) = <<>> THEN <<>> ELSE
    <<[timestamp |-> date * DayLength + ParseTime(time_str)[1],
       sender |-> Strip(third[1]),
       content |-> Strip(third[2]),
       direction |-> direction_str]>>

----------------------------------------------------------------------------
(* server.py: _get_recent_messages_from_file                               *)

\* The lines as they would be met from the first to the last.
Unreversed(seq) == seq

\* reversed(lines)
Reverse(seq) == [i \in 1..Len(seq) |-> seq[Len(seq) + 1 - i]]

\* The scan as it would be over eight days.
RECURSIVE ScanOrderOfEightDays(_, _, _)
ScanOrderOfEightDays(fs, today, i) ==
    IF i >= 8
    THEN <<>>
    ELSE LET date == today - i
             lines == IF date \in DOMAIN fs THEN Reverse(ReadLines(fs[date])) ELSE <<>>
         IN [k \in 1..Len(lines) |-> [line |-> lines[k], date |-> date]]
            \o ScanOrderOfEightDays(fs, today, i + 1)

\* The lines of the files of today and the six days before, in the order
\* the two loops meet them: the newest file first, each file from its last
\* line to its first, each line with the date of its file.  A date without
\* a file is passed over.
RECURSIVE ScanOrder(_, _, _)
ScanOrder(fs, today, i) ==
    IF i >= 7
    THEN <<>>
    ELSE LET date == today - i
             lines == IF date \in DOMAIN fs THEN Reverse(ReadLines(fs[date])) ELSE <<>>
         IN [k \in 1..Len(lines) |-> [line |-> lines[k], date |-> date]]
            \o ScanOrder(fs, today, i + 1)

\* The line loop from the k-th line met on: a line that decodes is appended,
\* and then `if len(messages) >= limit: return messages`; a line that does
\* not is logged and passed over.  `examined` counts the lines met.
RECURSIVE Collect(_, _, _, _)
Collect(items, k, messages, limit) ==
    IF k > Len(items)
    THEN [messages |-> messages, examined |-> Len(items)]
    ELSE LET decoded == DecodeLine(items[k].line, items[k].date) IN
         IF decoded = <<>>
         THEN Collect(items, k + 1, messages, limit)
         ELSE IF Len(messages) + 1 >= limit
              THEN [messages |-> messages \o decoded, examined |-> k]
              ELSE Collect(items, k + 1, messages \o decoded, limit)

\* _get_recent_messages_from_file(limit) on the directory fs on the day
\* `today`: the list returned, as the loops left it.
RecentMessagesFromFile(fs, today, limit) ==
    Collect(ScanOrder(fs, today, 0), 1, <<>>, limit)

----------------------------------------------------------------------------
(* server.py: _get_message_statistics                                      *)

\* The keys of stats['direction_stats'].
direction_stats_keys == {"qq_to_game", "game_to_qq", "webui_to_game", "console", "unknown"}

\* Whether text holds the tokens of part next to each other: part in text
Contains(text, part) ==
    \E i \in 0..(Len(text) - Len(part)) :
        \A j \in 1..Len(part) : text[i + j] = part[j]

\* text.split(c)[0] for a character c
Before(text, c) ==
    LET hits == {i \in 1..Len(text) : text[i] = c}
    IN IF hits = {} THEN text ELSE SubSeq(text, 1, Min(hits) - 1)

\* The value of a run of digits.
RECURSIVE DigitsValue(_)
DigitsValue(text) ==
    IF text = <<>> THEN 0
    ELSE 10 * DigitsValue(SubSeq(text, 1, Len(text) - 1)) + DigitValue(text[Len(text)])

\* int(text): <<the number>>, or <<>> when it raises ValueError.  Signs and
\* underscores, which int() accepts too, are not among the tokens.
ParseInt(text) ==
    LET t == Strip(text)
    IN IF t # <<>> /\ \A i \in 1..Len(t) : IsDigit(t[i])
       THEN <<DigitsValue(t)>>
       ELSE <<>>

\* The if/elif chain on the labels: the first label found anywhere in the
\* line names the bucket.
DirectionBucket(line) ==
    IF Contains(line, direction_map(<<"qq_to_game">>)) THEN "qq_to_game"
    ELSE IF Contains(line, direction_map(<<"game_to_qq">>)) THEN "game_to_qq"
    ELSE IF Contains(line, direction_map(<<"webui_to_game">>)) THEN "webui_to_game"
    ELSE IF Contains(line, direction_map(<<"console">>)) THEN "console"
    ELSE "unknown"

\* What one line adds besides total_messages: the hour bucket and the
\* direction bucket it is counted in, each <<bucket>> or <<>>.  Without both
\* brackets nothing is added; an hour that int() refuses or that is no key
\* of hourly_stats raises, and the bare except leaves the line there, before
\* its direction is looked at.
LineStats(line) ==
    IF ~(\E i \in 1..Len(line) : line[i] = "[") \/ ~(\E i \in 1..Len(line) : line[i] = "]")
    THEN [hour |-> <<>>, direction |-> <<>>]
    ELSE LET time_match == Remove(Before(line, "]"), "[")
             hour == ParseInt(Before(time_match, ":"))
         IN IF \E i \in 1..Len(time_match) : time_match[i] = ":"
            THEN IF hour = <<>> \/ hour[1] > 23
                 THEN [hour |-> <<>>, direction |-> <<>>]
                 ELSE [hour |-> hour, direction |-> <<DirectionBucket(line)>>]
            ELSE [hour |-> <<>>, direction |-> <<DirectionBucket(line)>>]

\* The lines as they would be if the file of the last date alone were read.
WindowLinesOfLastDate(fs, current_date, end_date) ==
    IF end_date \in DOMAIN fs THEN ReadLines(fs[end_date]) ELSE <<>>

\* The lines of the files of the dates start_date..end_date, oldest file
\* first: nothing when days - 1 days before today is after today.
RECURSIVE WindowLines(_, _, _)
WindowLines(fs, current_date, end_date) ==
    IF current_date > end_date
    THEN <<>>
    ELSE (IF current_date \in DOMAIN fs THEN ReadLines(fs[current_date]) ELSE <<>>)
         \o WindowLines(fs, current_date + 1, end_date)

\* _get_message_statistics(days) on the directory fs on the day `today`.
MessageStatistics(fs, today, days) ==
    LET start_date == today - (days - 1)
        lines == WindowLines(fs, start_date, today)
        stats == [i \in 1..Len(lines) |-> LineStats(lines[i])]
    IN [total_messages |-> Len(lines),
        daily_stats |-> [d \in start_date..today |->
                            IF d \in DOMAIN fs THEN Len(ReadLines(fs[d])) ELSE 0],
        direction_stats |-> [b \in direction_stats_keys |->
                                Cardinality({i \in 1..Len(lines) : stats[i].direction = <<b>>})],
        hourly_stats |-> [h \in 0..23 |->
                                Cardinality({i \in 1..Len(lines) : stats[i].hour = <<h>>})]]

----------------------------------------------------------------------------
(* qqsync_webui_plugin.py: on_disable and _stop_webui_server               *)

\* The WebUIServer on_enable built.
Server == "S"

\* future.result(timeout=10)
stop_timeout == 10

\* on_disable has not been called.
NotDisabled == [returned |-> FALSE, outcome |-> "none", waited |-> 0, saves |-> 0]

\* How future.result(timeout=10) ends for the coroutine webui_server.stop()
\* handed to the loop of the server thread: the coroutine returns in time
\* (it catches the exceptions of site.stop() and runner.cleanup()), the
\* coroutine ends with what it does not catch, a cancellation, and result()
\* raises, or ten seconds pass and result() raises TimeoutError.
StopOutcomes == {"returned", "raised", "timeout"}

\* The seconds future.result(timeout=10) takes.
StopWaits(outcome) == IF outcome = "timeout" THEN {stop_timeout} ELSE {0, stop_timeout - 1}

\* on_disable: _stop_webui_server().  With a server and a running loop the
\* stop is waited for, and self.webui_server = None comes after the wait,
\* inside the same try: what result() raises is logged by the except and the
\* assignment is skipped.  `running` is self._loop and self._loop.is_running().
\* The module imported aiohttp: the handlers of the model are its routes.
AIOHTTP_AVAILABLE == TRUE

\* start() and stop() are called at most MaxRunCalls times.
MaxRunCalls == 5

\* Before the first start() or stop().
NoRun ==
    [op |-> "none", returned |-> "None", completed |-> TRUE, calls |-> 0,
     runners |-> 0, sites |-> 0]

\* What may raise inside start(): runner.setup(), or TCPSite(...) and
\* site.start() (the port is taken).
StartFaults == {"none", "setup raises", "site start raises"}

\* server.py: WebUIServer.start.  `runners` and `sites` count the AppRunner
\* and TCPSite objects made so far.
start ==
    /\ webui_server # None
    /\ run.calls < MaxRunCalls
    /\ IF ~AIOHTTP_AVAILABLE
       THEN /\ run' = [run EXCEPT !.op = "start", !.returned = "False",
                                  !.completed = TRUE, !.calls = @ + 1]
            /\ UNCHANGED <<is_running, site, runner>>
       ELSE IF is_running
       THEN /\ run' = [run EXCEPT !.op = "start", !.returned = "True",
                                  !.completed = TRUE, !.calls = @ + 1]
            /\ UNCHANGED <<is_running, site, runner>>
       ELSE \E fault \in StartFaults :
            /\ runner' = <<run.runners + 1>>
            /\ site' = IF fault = "setup raises" THEN site ELSE <<run.sites + 1>>
            /\ is_running' = (fault = "none")
            /\ run' = [op |-> "start",
                       returned |-> IF fault = "none" THEN "True" ELSE "False",
                       completed |-> fault = "none",
                       calls |-> run.calls + 1,
                       runners |-> run.runners + 1,
                       sites |-> IF fault = "setup raises" THEN run.sites
                                 ELSE run.sites + 1]
    /\ UNCHANGED <<now, adapterVars, http, logVars, appenderVars, readVars,
                   webui_server, disable, lifecycle, dropped, webui_config>>

\* What may raise inside stop(): site.stop() if there is a site,
\* runner.cleanup() if there is a runner.
StopFaults ==
    {"none"} \cup (IF site # <<>> THEN {"site stop raises"} ELSE {})
             \cup (IF runner # <<>> THEN {"cleanup raises"} ELSE {})

\* server.py: WebUIServer.stop
stop ==
    /\ webui_server # None
    /\ run.calls < MaxRunCalls
    /\ IF ~is_running
       THEN /\ run' = [run EXCEPT !.op = "stop", !.returned = "None",
                                  !.completed = TRUE, !.calls = @ + 1]
            /\ UNCHANGED <<is_running, site, runner>>
       ELSE \E fault \in StopFaults :
            /\ site' = IF fault = "site stop raises" THEN site ELSE <<>>
            /\ runner' = IF fault = "none" THEN <<>> ELSE runner
            /\ is_running' = (fault # "none")
            /\ run' = [run EXCEPT !.op = "stop", !.returned = "None",
                                  !.completed = (fault = "none"), !.calls = @ + 1]
    /\ UNCHANGED <<now, adapterVars, http, logVars, appenderVars, readVars,
                   webui_server, disable, lifecycle, dropped, webui_config>>

\* qqsync_webui_plugin.py: on_enable.  Without the component it returns
\* before the server is made; with it, it asks get_plugin_info, makes the
\* server and starts the thread that will run start().
on_enable ==
    /\ lifecycle = "loaded"
    /\ \E reg \in Lookups :
        LET r == GetQQSyncPlugin(reg) IN
        /\ Resolved(r)
        /\ IF IsAvailableBody(r.ret).value
           THEN \E e \in Env(r.ret, PluginInfoShapes) :
                /\ last' = OpRecord("get_plugin_info", <<>>, CachedAgain(r),
                                    GetPluginInfoBody(r.ret, e))
                /\ webui_server' = Server
           ELSE /\ last' = OpRecord("is_available", <<>>, r, IsAvailableBody(r.ret))
                /\ webui_server' = None
    /\ lifecycle' = "enabled"
    /\ UNCHANGED <<now, http, logVars, appenderVars, readVars, disable, dropped,
                   webui_config, runVars>>

\* The fields of a server the plugin holds no more: with
\* self.webui_server = None there is no server whose fields could be read.
NoServerFields == is_running' = FALSE /\ site' = <<>> /\ runner' = <<>>

on_disable ==
    /\ ~disable.returned
    /\ \E running \in BOOLEAN, outcome \in StopOutcomes :
         \E waited \in StopWaits(outcome) :
            IF webui_server = None
            THEN /\ disable' = [returned |-> TRUE, outcome |-> "no server", waited |-> 0,
                                saves |-> Len(saves)]
                 /\ UNCHANGED <<now, webui_server, is_running, site, runner>>
            ELSE IF ~running
            THEN /\ webui_server' = None
                 /\ NoServerFields
                 /\ disable' = [returned |-> TRUE, outcome |-> "not waited", waited |-> 0,
                                saves |-> Len(saves)]
                 /\ UNCHANGED now
            ELSE /\ webui_server' = IF outcome = "returned" THEN None ELSE webui_server
                 /\ IF outcome = "returned"
                    THEN NoServerFields
                    ELSE UNCHANGED <<is_running, site, runner>>
                 /\ now' = now + waited
                 /\ disable' = [returned |-> TRUE, outcome |-> outcome, waited |-> waited,
                                saves |-> Len(saves)]
    /\ lifecycle' = "disabled"
    /\ UNCHANGED <<adapterVars, http, logVars, appenderVars, readVars, dropped,
                   webui_config, run>>

----------------------------------------------------------------------------
(* server.py and qqsync_webui_plugin.py: the callers of                    *)
(* _save_message_to_file, one after the other.                             *)

\* _save_message_to_file is called at most MaxSaves times, and the clock of
\* the log stops MaxLogElapsed seconds after LogStart.
MaxSaves == 2
MaxLogElapsed == 1

\* The log is followed from the last second of a day on.
LogStart == DayLength - 1

Message(ts, sender, content, direction) ==
    [timestamp |-> ts, sender |-> sender, content |-> content,
     type |-> <<"chat">>, direction |-> direction]

\* What the filesystem does on an append.
IOs == {"ok", "open fails", "write fails"}

\* The seconds that pass in a caller between int(time.time()) and open().
Delays == {0, 1}

CanAppend(delay) == Len(saves) < MaxSaves /\ now + delay <= LogStart + MaxLogElapsed

\* One call _save_message_to_file(message) at time `at`: the file, and the
\* record of the call with what the caller got back.
SaveMessage(caller, message, at, io) ==
    LET out == SaveMessageToFile(files, message, at, io)
    IN /\ files' = out.files
       /\ saves' = Append(saves, [caller |-> caller, message |-> message, at |-> at,
                                  io |-> io, date |-> out.date,
                                  returned |-> out.returned])

\* data.get('message', '') of the requests, before strip()
Bodies == {<<" ">>, <<"hi", " ">>}

api_send_message ==
    \E parses \in BOOLEAN, raw \in Bodies :
        LET message == Strip(raw) IN
        IF ~parses
        THEN /\ http' = Response("api_send_message", 500, [error |-> "invalid json"],
                                 NoOperation)
             /\ UNCHANGED <<now, adapterVars, logVars, appenderVars, readVars, pluginVars>>
        ELSE IF message = <<>>
        THEN /\ http' = Response("api_send_message", 400, [error |-> "empty message"],
                                 NoOperation)
             /\ UNCHANGED <<now, adapterVars, logVars, appenderVars, readVars, pluginVars>>
        ELSE \E reg \in Lookups, delay \in Delays, io \in IOs :
                LET r == GetQQSyncPlugin(reg) IN
                \E e \in Env(r.ret, SendShapes) :
                    LET adapter == OpRecord("send_message", <<message>>, r,
                                            SendMessageBody(r.ret, message, e))
                    IN /\ CanAppend(delay)
                       /\ Resolved(r)
                       /\ last' = adapter
                       /\ SaveMessage("api_send_message",
                                      Message(now, <<"WebUI">>, message, <<"webui_to_qq">>),
                                      now + delay, io)
                       /\ http' = Response("api_send_message", 200,
                                           [success |-> adapter.value], adapter)
                       /\ now' = now + delay
                       /\ UNCHANGED <<appenderVars, readVars, pluginVars>>

\* server.online_players and player.send_message(...) return or raise
\* (`broadcast`); self.plugin.server is truthy or not (`server`).
api_send_game_message ==
    \E raw \in Bodies, server \in BOOLEAN, broadcast \in {"ok", "raises"} :
        LET message == Strip(raw) IN
        IF message = <<>> \/ ~server \/ broadcast = "raises"
        THEN /\ http' = Response("api_send_game_message",
                                 IF message = <<>> THEN 400 ELSE IF ~server THEN 200 ELSE 500,
                                 [success |-> FALSE, error |-> "not sent"], NoOperation)
             /\ UNCHANGED <<now, adapterVars, logVars, appenderVars, readVars, pluginVars>>
        ELSE \E delay \in Delays, io \in IOs :
                /\ CanAppend(delay)
                /\ SaveMessage("api_send_game_message",
                               Message(now, <<"WebUI">>, message, <<"webui_to_game">>),
                               now + delay, io)
                /\ http' = Response("api_send_game_message", 200,
                                    [success |-> TRUE, message |-> "sent"], NoOperation)
                /\ now' = now + delay
                /\ UNCHANGED <<adapterVars, appenderVars, readVars, pluginVars>>

\* server.dispatch_command(server.command_sender, command) returns True or
\* False, or raises.
api_send_console_command ==
    \E raw \in {<<>>, <<"list">>}, dispatch \in {"True", "False", "raises"} :
        LET command == Strip(raw) IN
        IF command = <<>> \/ dispatch = "raises"
        THEN /\ http' = Response("api_send_console_command",
                                 IF command = <<>> THEN 400 ELSE 500,
                                 [success |-> FALSE, error |-> "not run"], NoOperation)
             /\ UNCHANGED <<now, adapterVars, logVars, appenderVars, readVars, pluginVars>>
        ELSE \E delay \in Delays, io \in IOs :
                /\ CanAppend(delay)
                /\ SaveMessage("api_send_console_command",
                               Message(now, <<"WebUI">>, command, <<"console">>),
                               now + delay, io)
                /\ http' = Response("api_send_console_command", 200,
                                    [success |-> dispatch = "True"], NoOperation)
                /\ now' = now + delay
                /\ UNCHANGED <<adapterVars, appenderVars, readVars, pluginVars>>

\* The directions of a message.
Directions ==
    {<<"qq_to_game">>, <<"game_to_qq">>, <<"webui_to_game">>, <<"webui_to_qq">>,
     <<"console">>, <<"unknown">>}

\* What the QQSync plugin hands to on_message_sent: sender, content and
\* direction, one of them a direction that is none of the six.
Sent ==
    {<<(<<"Steve">>), (<<"hi">>), d>> : d \in Directions \cup {<<"group">>}}
    \cup {<<(<<"Steve">>), (<<" ", "hi">>), (<<"game_to_qq">>)>>,
           <<(<<"Alex">>), (<<"yo">>), (<<"qq_to_game">>)>>}

\* The events recorded as not appended are at most MaxDropped.
MaxDropped == 2

\* qqsync_webui_plugin.py: on_message_sent: the event is appended when
\* self.webui_server is set; when it is not, nothing is done with it.
on_message_sent ==
    \E sent \in Sent, delay \in Delays, io \in IOs :
        IF webui_server # None
        THEN /\ CanAppend(delay)
             /\ SaveMessage("on_message_sent", Message(now, sent[1], sent[2], sent[3]),
                            now + delay, io)
             /\ now' = now + delay
             /\ UNCHANGED <<adapterVars, http, appenderVars, readVars, pluginVars>>
        ELSE /\ Len(dropped) < MaxDropped
             /\ dropped' = Append(dropped, [lifecycle |-> lifecycle])
             /\ UNCHANGED <<now, adapterVars, http, logVars, appenderVars, readVars,
                            webui_server, disable, lifecycle, webui_config, runVars>>

\* A second passes with nothing called.
Pass ==
    /\ now >= LogStart
    /\ now < LogStart + MaxLogElapsed
    /\ now' = now + 1
    /\ UNCHANGED <<adapterVars, serverVars>>

----------------------------------------------------------------------------
(* server.py: the message files read.                                      *)

\* The limits asked of _get_recent_messages_from_file go up to MaxLimit, and
\* the files read hold the lines of at most MaxStored messages, or of at
\* most MaxStoredByTime messages that differ by their time alone.
MaxLimit == 3
MaxStored == 2
MaxStoredByTime == 3

\* The files are read shortly after midnight of the ninth day.
ReadStart == 8 * DayLength + 1

\* Before anything was read.  A reading is kept with its argument, the time
\* and the number of saves it came after, and the lines it went through.
NoScan ==
    [op |-> "none", arg |-> 0, at |-> 0, seen |-> 0, value |-> <<>>, examined |-> 0]

\* limit, a count: 50 where the server calls the function, any count for
\* the function itself.
Limits == 0..MaxLimit

\* days, an int of the query string of /api/message_stats.
Days == {0, 1, 2, 7}

\* date = datetime.now().strftime('%Y-%m-%d')
Today == DateOf(now)

get_recent_messages_from_file ==
    \E limit \in Limits :
        LET r == RecentMessagesFromFile(files, Today, limit) IN
        /\ scan' = [op |-> "recent", arg |-> limit, at |-> now, seen |-> Len(saves),
                    value |-> r.messages, examined |-> r.examined]
        /\ UNCHANGED <<now, adapterVars, http, logVars, appenderVars, pluginVars>>

get_message_statistics ==
    \E days \in Days :
        /\ scan' = [op |-> "aggregate", arg |-> days, at |-> now, seen |-> Len(saves),
                    value |-> MessageStatistics(files, Today, days), examined |-> 0]
        /\ UNCHANGED <<now, adapterVars, http, logVars, appenderVars, pluginVars>>

\* The times of the messages in the files: on a day before the seven that
\* are read, at the end of yesterday, and today.
StoredTimes == {DayLength, ReadStart - 2, ReadStart - 1, ReadStart}

\* A line with an hour no day has, as a content can hold it after a newline.
LateLine ==
    <<"[", "2", "5", ":", "0", "0", ":", "0", "0", "]", " ">>
    \o direction_map(<<"game_to_qq">>) \o <<" ", "Alex", ":", " ", "yo">>

\* A line whose time tag has no opening bracket, and a line whose time has
\* fields of one digit, as a content can hold them after a newline.
BareLine ==
    <<"0", "7", ":", "0", "8", ":", "0", "9", "]", " ">>
    \o direction_map(<<"game_to_qq">>) \o <<" ", "Alex", ":", " ", "yo">>

LooseLine ==
    <<"[", "1", ":", "2", ":", "3", "]", " ">>
    \o direction_map(<<"game_to_qq">>) \o <<" ", "Alex", ":", " ", "yo">>

\* The messages the files were written from: by time, by direction, and
\* with contents that make more than one line or hold the text of a label.
StoredByTime ==
    {Message(t, <<"Steve">>, <<"hi">>, <<"game_to_qq">>) : t \in StoredTimes}

StoredMessages ==
    StoredByTime
    \cup {Message(ReadStart, <<"Alex">>, <<"yo">>, d) : d \in Directions}
    \cup {Message(ReadStart, <<"Alex">>, c, <<"console">>) :
            c \in {<<"hi", "\n">>, <<"a", "\n", "there">>,
                   <<"a", "\n">> \o LateLine, direction_map(<<"qq_to_game">>),
                   <<"a", "\n">> \o BareLine, <<"a", "\n">> \o LooseLine}}

\* The _save_message_to_file calls that wrote the files, in the order of
\* their writes, which for callers on several threads is not the order of
\* their timestamps: up to MaxStored of any of the messages, or up to
\* MaxStoredByTime of those that differ by their time alone.
Stored ==
    {<<>>} \cup UNION {[1..n -> StoredMessages] : n \in 1..MaxStored}
           \cup UNION {[1..n -> StoredByTime] : n \in 1..MaxStoredByTime}

RECURSIVE StoreOf(_)
StoreOf(written) ==
    IF written = <<>>
    THEN <<>>
    ELSE SaveMessageToFile(StoreOf(SubSeq(written, 1, Len(written) - 1)),
                           written[Len(written)], written[Len(written)].timestamp,
                           "ok").files

\* The records of these calls.
SavesOf(written) ==
    [i \in 1..Len(written) |->
        [caller |-> "on_message_sent", message |-> written[i],
         at |-> written[i].timestamp, io |-> "ok",
         date |-> FileDate(written[i], written[i].timestamp), returned |-> None]]

----------------------------------------------------------------------------
(* server.py: api_dashboard                                                *)

\* dict.get(key, default)
Get(dict, key, default) == IF key \in DOMAIN dict THEN dict[key] ELSE default

\* The component as api_dashboard finds it.
DashboardShapes ==
    Shapes({"server", "data_manager", "config_manager", "get_config"},
           {"online_players"}, {"get_config"})

\* The data of the dashboard for a component of shape e: every value comes
\* from an adapter operation on the handle is_available has just resolved.
DashboardData(e, bindings, online, recent_messages) ==
    LET server_info == GetServerInfoBody(Handle, e, bindings, online).value
        connection_status == Get(server_info, "connection_status", <<>>)
        ws_status == IF Get(connection_status, "websocket_connected", FALSE)
                     THEN "connected" ELSE "disconnected"
        qqsync_config == GetConfigBody(Handle, None, e).value
        \* statistics = self.qqsync_interface.get_statistics(7)
        statistics == GetStatisticsBody(Handle, e, bindings, online).value
    IN [stats |-> [online_players |-> Get(server_info, "online_players_count", 0),
                   bound_users |-> Get(server_info, "bound_users_count", 0),
                   total_messages |-> Get(statistics, "total_messages", 0),
                   websocket_status |-> ws_status,
                   config_complete |->
                        /\ Get(qqsync_config, "target_group", None) \notin {None, "exception"}
                        /\ Get(qqsync_config, "napcat_ws", None) \notin {None, "exception"}],
        recent_messages |-> recent_messages,
        qqsync_plugin_info |-> GetPluginInfoBody(Handle, e).value]

api_dashboard ==
    \E reg \in Lookups :
        LET r == GetQQSyncPlugin(reg) IN
        /\ Resolved(r)
        /\ IF r.ret = None
           THEN /\ last' = OpRecord("is_available", <<>>, r, IsAvailableBody(r.ret))
                /\ http' = Response("api_dashboard", 503,
                                    [error |-> "unavailable",
                                     stats |-> [online_players |-> 0, bound_users |-> 0,
                                                total_messages |-> 0,
                                                websocket_status |-> "disconnected",
                                                config_complete |-> FALSE]],
                                    OpRecord("is_available", <<>>, r, IsAvailableBody(r.ret)))
                /\ UNCHANGED scan
           ELSE \E e \in DashboardShapes,
                   bindings \in {NoBindings,
                                 [isdict |-> TRUE,
                                  items |-> <<Entry("Steve", "10001", FALSE)>>]} :
                    LET recent == RecentMessagesFromFile(files, Today, 50) IN
                    /\ scan' = [op |-> "recent", arg |-> 50, at |-> now,
                                seen |-> Len(saves), value |-> recent.messages,
                                examined |-> recent.examined]
                    /\ last' = OpRecord("get_plugin_info", <<>>, CachedAgain(r),
                                        GetPluginInfoBody(Handle, e))
                    /\ http' = Response("api_dashboard", 200,
                                        DashboardData(e, bindings, {"Steve"}, recent.messages),
                                        OpRecord("get_statistics", <<>>, CachedAgain(r),
                                                 GetStatisticsBody(Handle, e, bindings,
                                                                   {"Steve"})))
        /\ UNCHANGED <<now, logVars, appenderVars, pluginVars>>

----------------------------------------------------------------------------
(* server.py: _save_message_to_file called by several threads at once (the *)
(* server's event loop thread and the threads on_message_sent is called    *)
(* from).  There is no lock around open() and f.write(): an appender opens *)
(* the file, and when the file is closed the line is written in one piece  *)
(* at the end of the file (O_APPEND of POSIX), or the end of the file is    *)
(* sought first and the line written there in a second step (the append     *)
(* mode of the Windows runtime, which locks one file handle only).          *)

NumAppenders == 2
Appenders == 1..NumAppenders

Idle == [message |-> Message(0, <<>>, <<>>, <<>>), date |-> 0, line |-> <<>>, pos |-> 0]

\* The messages the concurrent callers append.
ConcurrentMessages ==
    {Message(now, <<"WebUI">>, <<"hi">>, <<"webui_to_qq">>),
     Message(now, <<"WebUI">>, <<"list">>, <<"console">>)}
    \cup {Message(now, <<"Steve">>, <<"hi">>, d) : d \in {<<"game_to_qq">>, <<"qq_to_game">>}}

\* The content of a file after `line` is written at offset pos.
WriteAt(content, pos, line) ==
    SubSeq(content, 1, pos) \o line \o SubSeq(content, pos + Len(line) + 1, Len(content))

\* The message is built and open(file_path, 'a') has returned.
append_open(p) ==
    /\ pc[p] = "idle"
    /\ \E message \in ConcurrentMessages :
        LET date == FileDate(message, now) IN
        /\ pending' = [pending EXCEPT ![p] = [message |-> message, date |-> date,
                                              line |-> LogLine(message), pos |-> 0]]
        /\ files' = [d \in DOMAIN files \cup {date} |->
                        IF d \in DOMAIN files THEN files[d] ELSE <<>>]
    /\ pc' = [pc EXCEPT ![p] = "opened"]
    /\ UNCHANGED <<now, adapterVars, http, saves, readVars, pluginVars>>

\* The buffered line goes to the end of the file in one piece.
append_flush(p) ==
    /\ pc[p] = "opened"
    /\ files' = [files EXCEPT ![pending[p].date] = @ \o pending[p].line]
    /\ pc' = [pc EXCEPT ![p] = "done"]
    /\ UNCHANGED <<now, adapterVars, http, saves, pending, readVars, pluginVars>>

\* The end of the file is sought ...
append_seek(p) ==
    /\ pc[p] = "opened"
    /\ pending' = [pending EXCEPT ![p].pos = Len(files[pending[p].date])]
    /\ pc' = [pc EXCEPT ![p] = "sought"]
    /\ UNCHANGED <<now, adapterVars, http, logVars, readVars, pluginVars>>

\* ... and the line is written where the end was.
append_write(p) ==
    /\ pc[p] = "sought"
    /\ files' = [files EXCEPT ![pending[p].date] = WriteAt(@, pending[p].pos, pending[p].line)]
    /\ pc' = [pc EXCEPT ![p] = "done"]
    /\ UNCHANGED <<now, adapterVars, http, saves, pending, readVars, pluginVars>>

----------------------------------------------------------------------------
(* The clock.                                                              *)

Tick ==
    /\ now < StartTime + MaxElapsed
    /\ now' = now + 1
    /\ UNCHANGED <<adapterVars, serverVars>>

----------------------------------------------------------------------------

\* The state after QQSyncInterface and WebUIServer are built and the plugin
\* enabled, at time t.
InitFields(t) ==
    /\ now = t
    /\ qqsync_plugin = None
    /\ last_check_time = 0
    /\ probeLog = <<>>
    /\ last = NoOperation
    /\ http = NoResponse
    /\ files = <<>>
    /\ saves = <<>>
    /\ pc = [p \in Appenders |-> "idle"]
    /\ pending = [p \in Appenders |-> Idle]
    /\ scan = NoScan
    /\ disable = NotDisabled
    /\ dropped = <<>>
    /\ webui_config = NoWebUIConfig

\* After on_enable found the component and the thread it started has run
\* start(): the server is set and listening.
Enabled ==
    /\ lifecycle = "enabled"
    /\ webui_server = Server
    /\ is_running = TRUE
    /\ site = <<1>>
    /\ runner = <<1>>
    /\ run = [op |-> "start", returned |-> "True", completed |-> TRUE, calls |-> 1,
              runners |-> 1, sites |-> 1]

\* After on_load: no server yet.
Loaded ==
    /\ lifecycle = "loaded"
    /\ webui_server = None
    /\ is_running = FALSE
    /\ site = <<>>
    /\ runner = <<>>
    /\ run = NoRun

\* After WebUIServer.__init__, before its first start().
Constructed ==
    /\ lifecycle = "enabled"
    /\ webui_server = Server
    /\ is_running = FALSE
    /\ site = <<>>
    /\ runner = <<>>
    /\ run = NoRun

InitAt(t) == InitFields(t) /\ Enabled

Init == InitAt(StartTime)
InitLog == InitAt(LogStart)

\* The same with the message files of earlier runs in the directory.
InitRead ==
    \E written \in Stored :
        /\ now = ReadStart
        /\ qqsync_plugin = None
        /\ last_check_time = 0
        /\ probeLog = <<>>
        /\ last = NoOperation
        /\ http = NoResponse
        /\ files = StoreOf(written)
        /\ saves = SavesOf(written)
        /\ pc = [p \in Appenders |-> "idle"]
        /\ pending = [p \in Appenders |-> Idle]
        /\ scan = NoScan
        /\ disable = NotDisabled
        /\ dropped = <<>>
        /\ webui_config = NoWebUIConfig
        /\ Enabled

\* The handle cache under a running clock.
NextCache == Tick \/ is_available

\* The adapter's operations, with the TTL running out between calls.
Expire ==
    /\ now + check_interval <= StartTime + MaxElapsed
    /\ now' = now + check_interval
    /\ UNCHANGED <<adapterVars, serverVars>>

Next ==
    \/ Expire
    \/ is_available
    \/ get_plugin_info
    \/ get_connection_status
    \/ get_config
    \/ set_config
    \/ update_config
    \/ get_users
    \/ get_user_info
    \/ unbind_user
    \/ ban_user
    \/ unban_user
    \/ send_message
    \/ get_statistics
    \/ get_audit_logs
    \/ restart_websocket
    \/ execute_command
    \/ get_server_info

Spec == Init /\ [][Next]_vars

SpecCache == Init /\ [][NextCache]_vars

\* The configuration writes of the HTTP API, update_config within them.
NextConfig == Expire \/ api_set_config

SpecConfig == Init /\ [][NextConfig]_vars

\* The message log around midnight, its callers one after the other.
NextLog ==
    \/ Pass
    \/ api_send_message
    \/ api_send_game_message
    \/ api_send_console_command
    \/ on_message_sent

SpecLog == InitLog /\ [][NextLog]_vars

\* The message log with its callers running at once.
NextAppend ==
    \E p \in Appenders :
        \/ append_open(p)
        \/ append_flush(p)
        \/ append_seek(p)
        \/ append_write(p)

SpecAppend == Init /\ [][NextAppend]_vars

\* The plugin disabled while messages are sent, from ten seconds before
\* the log's first second on.
InitShutdown == InitAt(LogStart - stop_timeout)

NextShutdown == on_message_sent \/ on_disable \/ Pass

SpecShutdown == InitShutdown /\ [][NextShutdown]_vars

\* Messages sent one after the other, and the most recent ones read back.
NextStore == on_message_sent \/ Pass \/ get_recent_messages_from_file

SpecStore == InitLog /\ [][NextStore]_vars

\* Messages sent to the game from the WebUI, and the dashboard asked for
\* its data.
NextDashboard == api_send_game_message \/ api_dashboard

SpecDashboard == InitLog /\ [][NextDashboard]_vars

\* Messages sent to QQ from the WebUI.
NextSend == Pass \/ api_send_message

SpecSend == InitLog /\ [][NextSend]_vars

\* The plugin from on_load on: enabled with or without the component, sent
\* messages, disabled.
InitEnable == InitFields(LogStart) /\ Loaded

NextEnable == on_enable \/ on_message_sent \/ on_disable \/ Pass

SpecEnable == InitEnable /\ [][NextEnable]_vars

\* The server started and stopped, from its construction on.
InitServer == InitFields(StartTime) /\ Constructed

NextServer == start \/ stop

SpecServer == InitServer /\ [][NextServer]_vars

\* The message files read.
NextRead == get_recent_messages_from_file \/ get_message_statistics

SpecRead == InitRead /\ [][NextRead]_vars

----------------------------------------------------------------------------
(* The handle's state, read off the adapter's fields as _get_qqsync_plugin *)
(* reads them: within _check_interval of the last completed probe the      *)
(* handle is AVAILABLE if the probe found the component and UNAVAILABLE if *)
(* it did not; otherwise it is UNPROBED.                                   *)

HandleState ==
    IF now - last_check_time < check_interval
    THEN IF qqsync_plugin # None THEN "AVAILABLE" ELSE "UNAVAILABLE"
    ELSE "UNPROBED"

\* The transitions of the handle's state machine.
HandleTransitions ==
    {<<"UNPROBED", "AVAILABLE">>, <<"UNPROBED", "UNAVAILABLE">>,
     <<"AVAILABLE", "UNPROBED">>, <<"UNAVAILABLE", "UNPROBED">>}

----------------------------------------------------------------------------
(* Claims.                                                                 *)

\* C1: every QQSyncInterface operation returns a value and never propagates
\* an exception, whatever the registry does (component absent, present,
\* lookup raising) and whatever the component lacks or raises.
C1_SoftCallsNeverRaise == ~last.raised

\* C1 witness: an operation whose call on the component raised, and which
\* returned its value all the same.
C1_Witness ==
    /\ last.op = "execute_command"
    /\ last.plugin = Handle
    /\ \E i \in 1..Len(last.calls) : ~last.calls[i].ok
    /\ last.value = [success |-> FALSE, error |-> "exception"]
    /\ ~last.raised

\* C2: two _get_qqsync_plugin calls within the 5-second window trigger at
\* most one plugin_manager.get_plugin call, whatever that call returned, and
\* a call issued after the window has run out triggers a new one.
C2_AtMostOneProbePerWindow ==
    /\ Len(probeLog) = 2 => probeLog[2] - probeLog[1] >= check_interval
    /\ (last.op # "init" /\ ~last.probed) => last.at - last_check_time < check_interval

\* C3: the handle's state changes only along the transitions of its state
\* machine: UNPROBED to AVAILABLE or UNAVAILABLE by a probe, AVAILABLE or
\* UNAVAILABLE to UNPROBED by the window running out; never UNAVAILABLE to
\* AVAILABLE (or back) directly.
C3_OnlyListedTransitions ==
    [][HandleState' # HandleState => <<HandleState, HandleState'>> \in HandleTransitions]_vars

\* Whether the calls of an update_config are sets that all returned, followed
\* by a persist step that raised.
AllSetsThenPersistRaised(calls) ==
    /\ \E i \in 1..Len(calls) : calls[i].m = "set_config"
    /\ \A i \in 1..Len(calls) : calls[i].m = "set_config" => calls[i].ok
    /\ \E i \in 1..Len(calls) : calls[i].m \in {"save_config", "save"} /\ ~calls[i].ok

\* C4: when every set_config of an update_config batch returns and the
\* persist step raises, update_config returns False for every key of the
\* batch, and api_set_config, which called it, answers with a failure: not
\* 200, and no success flag that is true.
C4_PersistFailureFailsBatch ==
    /\ (last.op = "update_config" /\ AllSetsThenPersistRaised(last.calls))
            => last.value = AllFalse(last.args)
    /\ (/\ http.handler = "api_set_config"
        /\ http.adapter.op = "update_config"
        /\ AllSetsThenPersistRaised(http.adapter.calls))
            => /\ http.adapter.value = AllFalse(http.adapter.args)
               /\ http.status # 200
               /\ "success" \in DOMAIN http.body => ~http.body.success

\* C4 witness: the batch {a, b} whose sets returned and whose persist step
\* raised, answered with 500.
C4_Witness ==
    /\ last.op = "update_config"
    /\ last.args = <<"a", "b">>
    /\ AllSetsThenPersistRaised(last.calls)
    /\ last.value = [k \in {"a", "b"} |-> FALSE]
    /\ http.adapter = last
    /\ http.status = 500

\* Whether the calls of an operation hold a set of `key` that returned and,
\* after it, a persist step (save_config or save) that returned.
SetThenPersisted(calls, key) ==
    \E i, j \in 1..Len(calls) :
        /\ i < j
        /\ calls[i].m = "set_config" /\ calls[i].arg = key /\ calls[i].ok
        /\ calls[j].m \in {"save_config", "save"} /\ calls[j].ok

\* C5: set_config and update_config report True for a key only if a persist
\* step on the component's config store ran after the key was set and
\* returned without error, for every shape of the config_manager.
C5_TrueOnlyAfterPersist ==
    /\ (last.op = "set_config" /\ last.value = TRUE)
            => SetThenPersisted(last.calls, last.args[1])
    /\ last.op = "update_config"
            => \A k \in DOMAIN last.value :
                    last.value[k] => SetThenPersisted(last.calls, k)

\* Whether operation `op` called with `args` can return `v` when
\* _get_qqsync_plugin gave it the component.
ReturnsWhenAvailable(op, args, v) ==
    CASE op = "get_config" ->
            \E e \in GetConfigShapes : GetConfigBody(Handle, args[1], e).value = v
      [] op = "get_users" ->
            \E e \in UsersShapes, b \in BindingChoices :
                GetUsersBody(Handle, e, b, {}).value = v
      [] op = "get_statistics" ->
            \E e \in UsersShapes, b \in BindingChoices :
                GetStatisticsBody(Handle, e, b, {}).value = v
      [] op = "get_audit_logs" ->
            \E e \in AuditShapes : GetAuditLogsBody(Handle, e, <<>>).value = v
      [] op = "get_server_info" ->
            \E e \in ServerInfoShapes : GetServerInfoBody(Handle, e, NoBindings, {}).value = v
      [] op = "get_connection_status" ->
            \E e \in ConnectionShapes : GetConnectionStatusBody(Handle, e).value = v
      [] op = "unbind_user" ->
            \E e \in UnbindShapes : UserActionBody(Handle, "unbind_player_qq", args[1], e).value = v
      [] op = "ban_user" ->
            \E e \in BanShapes : UserActionBody(Handle, "ban_player", args[1], e).value = v
      [] op = "unban_user" ->
            \E e \in UnbanShapes : UserActionBody(Handle, "unban_player", args[1], e).value = v
      [] op = "send_message" ->
            \E e \in SendShapes : SendMessageBody(Handle, args[1], e).value = v
      [] op = "restart_websocket" ->
            \E e \in RestartShapes : RestartWebsocketBody(Handle, e).value = v
      [] op = "execute_command" ->
            \E e \in ExecuteShapes : ExecuteCommandBody(Handle, args[1], e).value = v
      [] OTHER -> FALSE

\* C6: what an operation returns when the component is unavailable carries
\* an unavailable marker: it differs from everything the same operation
\* returns when the component is available (with no data, or refusing).
C6_UnavailableIsDistinguishable ==
    (last.op # "init" /\ last.plugin = None)
        => ~ReturnsWhenAvailable(last.op, last.args, last.value)

\* The calls that wrote a line to the file of date d, in order.
SavedTo(d) == SelectSeq(saves, LAMBDA s : s.io = "ok" /\ s.date = d)

C8_AppendsAreMutuallyExclusive ==
    /\ Cardinality({p \in Appenders : pc[p] \in {"opened", "sought"}}) <= 1
    /\ (\A p \in Appenders : pc[p] = "done")
            => \A d \in DOMAIN files :
                    LET lines == ReadLines(files[d])
                        mine == {p \in Appenders : pending[p].date = d}
                    IN /\ Len(lines) = Cardinality(mine)
                       /\ \A i \in 1..Len(lines) : DecodeLine(lines[i], d) # <<>>
                       /\ \A p \in mine : \E i \in 1..Len(lines) : lines[i] = pending[p].line

\* C9: a _save_message_to_file call whose open or write failed returns
\* something else than a call that wrote its line, so that its caller can
\* tell the two apart.
C9_FailedAppendIsReported ==
    \A i \in 1..Len(saves) :
        saves[i].io # "ok"
            => saves[i].returned
                    # SaveMessageToFile(<<>>, saves[i].message, saves[i].at, "ok").returned

\* Whether a text holds one of the separators of a line.
HasSeparator(text) ==
    Len(Split1(text, <<"]", " ">>)) = 2 \/ Len(Split1(text, <<":", " ">>)) = 2

\* The four fields a line is decoded to.
Decoded(message) ==
    [timestamp |-> message.timestamp, sender |-> message.sender,
     content |-> message.content, direction |-> message.direction]

\* C10: for a message saved whose sender and content hold no separator, and
\* for each of the six directions in its place, decoding the line written
\* with the date of its file gives back timestamp, sender, content and
\* direction.
C10_RoundTrip ==
    \A i \in 1..Len(saves) :
        (/\ saves[i].io = "ok"
         /\ ~HasSeparator(saves[i].message.sender)
         /\ ~HasSeparator(saves[i].message.content))
            => \A d \in Directions :
                    LET m == [saves[i].message EXCEPT !.direction = d]
                    IN DecodeLine(LogLine(m), FileDate(m, saves[i].at)) = <<Decoded(m)>>

----------------------------------------------------------------------------
(* update_config: the order of the calls on the config_manager            *)

\* The positions of the persist step in a sequence of calls.
PersistAt(calls) ==
    {i \in 1..Len(calls) : calls[i].m \in {"save_config", "save"}}

\* C18: in an update_config call that reached the config_manager, the
\* persist step (save_config or save) is called at most once, and when it is
\* called it is the last call, after one set_config for every key of the
\* batch in the batch's order, whichever of them raised.
C18_PersistOnceAfterAllSets ==
    (last.op = "update_config" /\ last.calls # <<>>)
        => /\ Cardinality(PersistAt(last.calls)) <= 1
           /\ \A i \in PersistAt(last.calls) :
                /\ i = Len(last.calls)
                /\ i = Len(last.args) + 1
           /\ \A i \in 1..Len(last.args) :
                /\ i <= Len(last.calls)
                /\ last.calls[i].m = "set_config"
                /\ last.calls[i].arg = last.args[i]

\* Reached: a batch of two keys whose first set raised, and the persist step
\* called once after the second set.
C18_Witness ==
    /\ last.op = "update_config"
    /\ last.args = <<"a", "b">>
    /\ Len(last.calls) = 3
    /\ ~last.calls[1].ok
    /\ last.calls[2].m = "set_config"
    /\ PersistAt(last.calls) = {3}

\* The keys of a batch whose set_config call raised.
RaisedKeys(calls) ==
    {calls[i].arg : i \in {j \in 1..Len(calls) :
                                calls[j].m = "set_config" /\ ~calls[j].ok}}

\* C19: in an update_config call where the set of some key raised, every key
\* of the batch has still been set, and when the persist step did not raise
\* the result is False for exactly the keys whose set raised and True for
\* all the others.
C19_FailedSetDoesNotAbortBatch ==
    (last.op = "update_config" /\ RaisedKeys(last.calls) # {})
        => /\ \A k \in Range(last.args) :
                \E i \in 1..Len(last.calls) :
                    last.calls[i].m = "set_config" /\ last.calls[i].arg = k
           /\ (\A i \in PersistAt(last.calls) : last.calls[i].ok)
                => last.value = [k \in Range(last.args) |->
                                    k \notin RaisedKeys(last.calls)]

\* Reached: the set of "a" raised, "b" was set after it, the persist step
\* succeeded, and the result is {a: False, b: True}.
C19_Witness ==
    /\ last.op = "update_config"
    /\ last.args = <<"a", "b">>
    /\ RaisedKeys(last.calls) = {"a"}
    /\ PersistAt(last.calls) # {}
    /\ \A i \in PersistAt(last.calls) : last.calls[i].ok
    /\ last.value = [k \in {"a", "b"} |-> k = "b"]

\* C29: the dict update_config returns has exactly the keys of the batch it
\* was given: when the component is unavailable, when it has no
\* config_manager, when sets raised, when the persist step raised and when
\* the outer except caught something.
C29_ResultKeysAreBatchKeys ==
    last.op = "update_config" => DOMAIN last.value = Range(last.args)

\* Reached: a batch of two keys, the set of "a" raised and the persist step
\* raised after the set of "b"; both keys are in the result, False.
C29_Witness ==
    /\ last.op = "update_config"
    /\ last.args = <<"a", "b">>
    /\ RaisedKeys(last.calls) = {"a"}
    /\ \E i \in PersistAt(last.calls) : ~last.calls[i].ok
    /\ last.value = [k \in {"a", "b"} |-> FALSE]

\* Whether the calls of an operation hold a call of method m.
Called(calls, m) == \E i \in 1..Len(calls) : calls[i].m = m

\* Whether the calls of an operation hold a call of method m that returned.
Returned(calls, m) == \E i \in 1..Len(calls) : calls[i].m = m /\ calls[i].ok

\* C28: execute_command returns success True exactly when
\* execute_server_command was called and returned without raising; a failure
\* of the audit step after it does not make the executed command a failure.
C28_SuccessIffCommandRan ==
    last.op = "execute_command"
        => (last.value.success <=> Returned(last.calls, "execute_server_command"))

\* C27: a restart_websocket call that returns False has not called
\* ws_client.stop, and stop is called only in calls that also schedule the
\* reconnect (connect_forever).
C27_StopOnlyWithReconnect ==
    last.op = "restart_websocket"
        => /\ last.value = FALSE => ~Called(last.calls, "stop")
           /\ Called(last.calls, "stop") => Returned(last.calls, "connect_forever")

----------------------------------------------------------------------------
(* The message files read                                                  *)

\* C11: _get_recent_messages_from_file(limit) returns at most limit
\* messages, for every limit from 0 on and whatever the files hold.
C11_AtMostLimit ==
    scan.op = "recent" => Len(scan.value) <= scan.arg

\* C12: the messages _get_recent_messages_from_file returns are in
\* non-increasing order of timestamp, whatever the order of the lines in the
\* files.
C12_NewestFirst ==
    scan.op = "recent"
        => \A i \in 1..Len(scan.value) : \A j \in i..Len(scan.value) :
                scan.value[i].timestamp >= scan.value[j].timestamp

\* The sum of the counts of a dict of counts.
RECURSIVE SumOver(_, _)
SumOver(counts, keys) ==
    IF keys = {} THEN 0
    ELSE LET k == CHOOSE x \in keys : TRUE
         IN counts[k] + SumOver(counts, keys \ {k})

\* C14: in the result of _get_message_statistics the counts of the direction
\* buckets add up to total_messages, and so do the counts of the 24 hour
\* buckets, whatever lines the files hold.
C14_BucketsAddUp ==
    scan.op = "aggregate"
        => /\ SumOver(scan.value.direction_stats, DOMAIN scan.value.direction_stats)
                = scan.value.total_messages
           /\ SumOver(scan.value.hourly_stats, DOMAIN scan.value.hourly_stats)
                = scan.value.total_messages

\* The saved messages of one line each.
OneLine(message) ==
    /\ \A i \in 1..Len(message.content) : message.content[i] # "\n"
    /\ \A i \in 1..Len(message.sender) : message.sender[i] # "\n"

\* The name of the direction of a message when it is one of the six, else
\* "unknown", as _save_message_to_file labels it.
DirectionName(message) ==
    IF message.direction \in Directions THEN message.direction[1] ELSE "unknown"

\* The messages saved in the seven days up to the day of the scan whose
\* direction has the name b.
SavedWithDirection(b) ==
    {i \in 1..Len(saves) :
        /\ saves[i].date \in (DateOf(scan.at) - 6)..DateOf(scan.at)
        /\ DirectionName(saves[i].message) = b}

\* C15: when every message saved is of one line, every message saved in the
\* seven days is counted by _get_message_statistics in the bucket named
\* after its direction and in no other: that bucket exists, and every
\* bucket counts the messages saved with its direction and nothing else,
\* whatever their sender and content hold.
C15_BucketPerDirection ==
    (/\ scan.op = "aggregate"
     /\ scan.arg = 7
     /\ \A i \in 1..Len(saves) : saves[i].io = "ok" /\ OneLine(saves[i].message))
        => /\ \A d \in Directions :
                SavedWithDirection(d[1]) # {} => d[1] \in DOMAIN scan.value.direction_stats
           /\ \A b \in DOMAIN scan.value.direction_stats :
                scan.value.direction_stats[b] = Cardinality(SavedWithDirection(b))

\* The places, among the lines of the seven days in the order they are
\* read, of the lines that decode.
ValidAt(items) ==
    {k \in 1..Len(items) : DecodeLine(items[k].line, items[k].date) # <<>>}

\* C20: _get_recent_messages_from_file(limit) returns min(limit, v) messages,
\* v being the number of lines of the seven days that decode, wherever the
\* lines that do not decode stand; and when limit of them were gathered no
\* line after the last of them was read.
C20_MalformedLinesAreSkipped ==
    scan.op = "recent"
        => LET items == ScanOrder(files, DateOf(scan.at), 0)
               v == Cardinality(ValidAt(items))
           IN /\ Len(scan.value) = Min({scan.arg, v})
              /\ v >= scan.arg
                    => Cardinality({k \in ValidAt(items) : k <= scan.examined})
                            = scan.arg
              /\ (v >= scan.arg /\ scan.arg > 0) => scan.examined \in ValidAt(items)

\* The same for the limits from 1 on.
RecentSkipsMalformedLinesFromOne ==
    (scan.op = "recent" /\ scan.arg >= 1)
        => LET items == ScanOrder(files, DateOf(scan.at), 0)
               v == Cardinality(ValidAt(items))
           IN /\ Len(scan.value) = Min({scan.arg, v})
              /\ v >= scan.arg => scan.examined = Max({0} \cup
                    {k \in ValidAt(items) :
                        Cardinality({j \in ValidAt(items) : j <= k}) = scan.arg})


\* What follows the first character of a text.
Rest(text) == IF text = <<>> THEN <<>> ELSE Tail(text)

\* Whether a text begins with an opening bracket.
Opens(text) == text # <<>> /\ text[1] = "["

\* HH:MM:SS, strictly: two digits for each, an hour, a minute and a second
\* of the clock.
StrictTime(text) ==
    /\ Len(text) = 8
    /\ text[3] = ":" /\ text[6] = ":"
    /\ \A i \in {1, 2, 4, 5, 7, 8} : IsDigit(text[i])
    /\ Number(text[1], text[2]) < 24
    /\ Number(text[4], text[5]) < 60
    /\ Number(text[7], text[8]) < 60

\* A line as _save_message_to_file begins one: "[HH:MM:SS] [direction]
\* sender: content", with both brackets of both tags and the separator.
WellFormed(line) ==
    LET first == Split1(line, <<"]", " ">>) IN
    /\ Len(first) = 2
    /\ Opens(first[1])
    /\ StrictTime(Rest(first[1]))
    /\ LET second == Split1(first[2], <<"]", " ">>) IN
        /\ Len(second) = 2
        /\ Opens(second[1])
        /\ Len(Split1(second[2], <<":", " ">>)) = 2

\* C21: a line _get_recent_messages_from_file met that lacks a bracket of
\* its time tag or of its direction tag, or the ": " separator, or whose
\* time is not a strict HH:MM:SS, gave no message of the result.
C21_IllFormedLinesAreDropped ==
    scan.op = "recent"
        => LET items == ScanOrder(files, DateOf(scan.at), 0)
           IN \A k \in ValidAt(items) :
                k <= scan.examined => WellFormed(items[k].line)


\* C22: _get_recent_messages_from_file returns messages of the files of
\* today and the six days before only, a file of seven or more days ago
\* giving none even when fewer than limit were found, and every message of
\* a later date stands before every message of an earlier date.
C22_SevenDaysNewestDateFirst ==
    scan.op = "recent"
        => LET today == DateOf(scan.at)
               date(i) == DateOf(scan.value[i].timestamp)
           IN /\ \A i \in 1..Len(scan.value) : date(i) \in (today - 6)..today
              /\ \A i, j \in 1..Len(scan.value) : i < j => date(i) >= date(j)

\* Reached: a file of seven days ago holds a line that decodes, limit is 3,
\* and the two messages returned are the one of today and then the one of
\* yesterday.
C22_Witness ==
    /\ scan.op = "recent"
    /\ scan.arg = 3
    /\ LET old == DateOf(scan.at) - 7 IN
        /\ old \in DOMAIN files
        /\ \E k \in 1..Len(ReadLines(files[old])) :
                DecodeLine(ReadLines(files[old])[k], old) # <<>>
    /\ Len(scan.value) = 2
    /\ DateOf(scan.value[1].timestamp) = DateOf(scan.at)
    /\ DateOf(scan.value[2].timestamp) = DateOf(scan.at) - 1

\* The number of lines of the file of a date, 0 if there is none.
LinesOn(date) == IF date \in DOMAIN files THEN Len(ReadLines(files[date])) ELSE 0

LinesIn(fs, date) == IF date \in DOMAIN fs THEN Len(ReadLines(fs[date])) ELSE 0

\* A step in which api_send_message answered a request whose message was
\* not empty: it went to send_message.
SendRequestAnswered ==
    /\ http'.handler = "api_send_message"
    /\ http'.adapter.op = "send_message"
    /\ <<last, http, files, saves>>' # <<last, http, files, saves>>

\* C24: an api_send_message request with a message that is not empty makes
\* one _save_message_to_file call, for a webui_to_qq message with the
\* request's text, whatever send_message returned; on a filesystem that
\* takes the write the file has one line more, with the WebUI->QQ label, and
\* no other file changed; and the success flag of the answer is what
\* send_message returned.
C24_AppendIndependentOfForwarding ==
    [][SendRequestAnswered
        => /\ Len(saves') = Len(saves) + 1
           /\ SubSeq(saves', 1, Len(saves)) = saves
           /\ LET save == saves'[Len(saves')] IN
               /\ save.caller = "api_send_message"
               /\ save.message.direction = <<"webui_to_qq">>
               /\ save.message.content = http'.adapter.args[1]
               /\ save.io = "ok"
                    => /\ LinesIn(files', save.date) = LinesIn(files, save.date) + 1
                       /\ Contains(ReadLines(files'[save.date])[LinesIn(files', save.date)],
                                   <<"[", "WebUI->QQ", "]">>)
                       /\ \A d \in DOMAIN files' \ {save.date} :
                            d \in DOMAIN files /\ files'[d] = files[d]
           /\ http'.status = 200
           /\ http'.body.success = http'.adapter.value]_vars

\* Reached: the second of two requests met the component unavailable, was
\* answered with success false, and its line is the second of the file.
C24_Witness ==
    /\ http.handler = "api_send_message"
    /\ http.adapter.op = "send_message"
    /\ http.adapter.plugin = None
    /\ http.body.success = FALSE
    /\ Len(saves) = 2
    /\ \A i \in 1..2 : saves[i].caller = "api_send_message" /\ saves[i].io = "ok"
    /\ saves[1].date = saves[2].date
    /\ LinesIn(files, saves[2].date) = 2

\* C25: every event on_message_sent got after on_enable returned and before
\* on_disable was appended to the log, whether or not on_enable found the
\* component: none of them is among the events that were not appended.
C25_EnabledEventsAreAppended ==
    \A i \in 1..Len(dropped) : dropped[i].lifecycle # "enabled"

\* C26: api_set_config answers 200 with success true only if every key of
\* the request was applied and persisted in its store: a component key by a
\* set_config and a persist step after it that both returned, a webui key
\* in the config and the file of the WebUIConfigManager.
C26_SuccessMeansPersisted ==
    (http.handler = "api_set_config" /\ http.status = 200)
        => /\ http.body.success
           /\ webui_config.request.keys \subseteq webui_config.request.applied
           /\ webui_config.request.keys \subseteq webui_config.request.persisted
           /\ http.adapter.op = "update_config"
                => \A k \in Range(http.adapter.args) :
                        SetThenPersisted(http.adapter.calls, k)

\* C30: is_running is True exactly when site is not None, after every
\* start() and stop(); a start() on a running server makes no runner and no
\* site and returns True; a stop() on a server that is not running changes
\* nothing; and a stop() that completed leaves site and runner None and
\* is_running False.
C30_RunningIffListening ==
    /\ [](is_running <=> site # <<>>)
    /\ [][run'.calls = run.calls + 1
            => /\ (run'.op = "start" /\ is_running)
                    => /\ UNCHANGED <<is_running, site, runner>>
                       /\ run'.runners = run.runners /\ run'.sites = run.sites
                       /\ run'.returned = "True"
               /\ (run'.op = "stop" /\ ~is_running)
                    => UNCHANGED <<is_running, site, runner>>
               /\ (run'.op = "stop" /\ run'.completed)
                    => site' = <<>> /\ runner' = <<>> /\ ~is_running']_vars
----------------------------------------------------------------------------
(* Shutdown                                                                *)

\* C17: on_disable waits at most stop_timeout seconds for the stop of the
\* server, and once it has returned on_message_sent saves no message any
\* more, however the stop ended.
C17_NoAppendAfterDisable ==
    disable.returned
        => /\ disable.waited <= stop_timeout
           /\ \A i \in (disable.saves + 1)..Len(saves) :
                saves[i].caller # "on_message_sent"

----------------------------------------------------------------------------
(* Messages saved and read back                                            *)

\* A message whose line decodes to its sender and content: both of one
\* line, without a separator and without blanks around them.
ValidMessage(message) ==
    /\ OneLine(message)
    /\ ~HasSeparator(message.sender) /\ ~HasSeparator(message.content)
    /\ Strip(message.sender) = message.sender
    /\ Strip(message.content) = message.content

\* The messages written before the most recent reading, oldest first.
WrittenBeforeScan ==
    LET before == SubSeq(saves, 1, scan.seen)
        ok == SelectSeq(before, LAMBDA r : r.io = "ok")
    IN [i \in 1..Len(ok) |-> ok[i].message]

\* C13: after n valid messages were saved one after the other (their
\* timestamps never decreasing) and nothing else is in the files,
\* _get_recent_messages_from_file(k) with k >= 1 returns min(k, n) messages,
\* the last saved first, each with the timestamp, sender and content it was
\* saved with; with nothing saved and no file it returns the empty list.
C13_LastSavedFirst ==
    (/\ scan.op = "recent"
     /\ scan.arg >= 1
     /\ \A i \in 1..Len(WrittenBeforeScan) : ValidMessage(WrittenBeforeScan[i]))
        => LET n == Len(WrittenBeforeScan)
               m == Min({scan.arg, n})
           IN /\ Len(scan.value) = m
              /\ \A j \in 1..m :
                    /\ scan.value[j].timestamp = WrittenBeforeScan[n + 1 - j].timestamp
                    /\ scan.value[j].sender = WrittenBeforeScan[n + 1 - j].sender
                    /\ scan.value[j].content = WrittenBeforeScan[n + 1 - j].content

\* Reached: two valid messages of two senders saved in the same second, and
\* the one saved last returned alone for k = 1.
C13_Witness ==
    /\ scan.op = "recent"
    /\ scan.arg = 1
    /\ Len(WrittenBeforeScan) = 2
    /\ \A i \in 1..2 : ValidMessage(WrittenBeforeScan[i])
    /\ WrittenBeforeScan[1].timestamp = WrittenBeforeScan[2].timestamp
    /\ WrittenBeforeScan[1].sender # WrittenBeforeScan[2].sender
    /\ Len(scan.value) = 1
    /\ scan.value[1].sender = WrittenBeforeScan[2].sender
    /\ scan.value[1].content = WrittenBeforeScan[2].content

----------------------------------------------------------------------------
(* The dashboard                                                           *)

\* C16: the total_messages of the data api_dashboard answers with is the
\* number of messages saved in the seven days up to the request, n, next to
\* the user counts of the component.
C16_DashboardCountsMessages ==
    (http.handler = "api_dashboard" /\ http.status = 200)
        => http.body.stats.total_messages
                = Cardinality({i \in 1..scan.seen :
                        /\ saves[i].io = "ok"
                        /\ saves[i].date \in (DateOf(scan.at) - 6)..DateOf(scan.at)})

====
